---------------------------- MODULE Spec2Model ----------------------------
(***************************************************************************)
(* A model of thonny-sealed: sealed blocks of a text buffer, delimited by  *)
(* "# sealed: on <hash>" / "# sealed: off <hash>" comment lines, are       *)
(* tagged in a tkinter.Text widget and guarded against inserts and         *)
(* deletes.                                                                *)
(*                                                                         *)
(* A buffer is a sequence of one-character strings.  As in tkinter.Text    *)
(* the buffer always ends with a final newline that cannot be deleted.     *)
(* Positions are 1-based character offsets: position 1 is the Tk index     *)
(* "1.0" and position Len(t) + 1 is the Tk index "end".  A tag is the      *)
(* sorted sequence of its ranges <<start, end>> (start inclusive, end      *)
(* exclusive), as returned by tag_ranges.                                  *)
(***************************************************************************)
EXTENDS Integers, Sequences, FiniteSets, TLC

VARIABLES
    text,       \* content of the text widget, final newline included
    sealed,     \* ranges of the tag TAG_NAME ("thonny_sealed")
    sealed0,    \* capture_sealed_blocks right after set_tags (snapshot)
    nedits,     \* number of edits applied so far
    pc,         \* position of the deletion comparison: "edit", "query", "pinned", "done"
    sel_first,  \* query interval of the deletion comparison (SEL_FIRST, SEL_LAST)
    sel_last,
    deletables, \* result of pin_deletable_ranges for the query
    fast,       \* buffer after delete_the_deletables: [text, sealed]
    naive,      \* buffer after naive_delete: [text, sealed]
    arg,        \* argument of the call in progress: chars of is_insertable, lines of seal
    ret         \* what the call returned

vars ==
    <<text, sealed, sealed0, nedits, pc, sel_first, sel_last, deletables, fast, naive,
      arg, ret>>

---------------------------------------------------------------------------
(* Bounds of the model *)

\* Maximal number of items (free lines, blank lines, sealed blocks) of an initial document
MaxItems == 3

\* Maximal number of edits applied after set_tags to a view with sealed ranges
MaxEdits == 2

\* Maximal number of edits applied after set_tags to a view without any
\* range, where every edit is let through
MaxFreeEdits == 1

\* Maximal number of items of a document given to set_content on a view in use
MaxReloadItems == 1

\* Maximal number of lines of a file given to seal
MaxLines == 4

\* Maximal number of markers given to parse_blocks
MaxMarkers == 4

\* Maximal number of lines of a buffer given to check_tags
MaxTagLines == 4


---------------------------------------------------------------------------
(* Characters and small helpers *)

NL == "\n"

Min(a, b) == IF a < b THEN a ELSE b

Max(a, b) == IF a > b THEN a ELSE b

\* Characters matched by \s and removed by str.strip() / str.rstrip()
WhiteSpace == {" ", "\t", "\n", "\r", "\f"}

IsSpace(c) == c \in WhiteSpace

\* Characters for which str.isalnum() is true, among the characters of the model
AlNum ==
    {"a", "b", "c", "d", "e", "f", "l", "n", "o", "s", "x", "y",
     "A", "D", "E", "F", "L", "N", "O", "S",
     "0", "1", "2", "3", "4", "5", "6", "7", "8", "9"}

\* chars.startswith("\n")
StartsWithNL(chars) == Len(chars) > 0 /\ chars[1] = NL

\* chars.endswith("\n")
EndsWithNL(chars) == Len(chars) > 0 /\ chars[Len(chars)] = NL

RECURSIVE Strip(_)
\* str.strip()
Strip(s) ==
    IF s = <<>> THEN s
    ELSE IF IsSpace(s[1]) THEN Strip(Tail(s))
    ELSE IF IsSpace(s[Len(s)]) THEN Strip(SubSeq(s, 1, Len(s) - 1))
    ELSE s

RECURSIVE RStrip(_)
\* str.rstrip()
RStrip(s) ==
    IF s = <<>> THEN s
    ELSE IF IsSpace(s[Len(s)]) THEN RStrip(SubSeq(s, 1, Len(s) - 1))
    ELSE s

RECURSIVE Join(_)
\* "\n".join(lines)
Join(ls) ==
    IF ls = <<>> THEN <<>>
    ELSE IF Len(ls) = 1 THEN ls[1]
    ELSE ls[1] \o <<NL>> \o Join(Tail(ls))

\* Characters at which str.splitlines() breaks a line
LineBreaks == {"\n", "\r", "\f"}

RECURSIVE SplitLines(_)
\* str.splitlines()
SplitLines(s) ==
    IF s = <<>> THEN <<>>
    ELSE
        LET brks == {i \in 1..Len(s) : s[i] \in LineBreaks}
        IN  IF brks = {} THEN <<s>>
            ELSE
                LET b == CHOOSE i \in brks : \A j \in brks : i <= j
                    skip == IF s[b] = "\r" /\ b < Len(s) /\ s[b + 1] = "\n"
                            THEN 2 ELSE 1
                IN  <<SubSeq(s, 1, b - 1)>> \o SplitLines(SubSeq(s, b + skip, Len(s)))

---------------------------------------------------------------------------
(* The tkinter.Text operations the code uses *)

\* tkinter.END
TkEnd(t) == Len(t) + 1

\* text_widget.index(...): an index is clamped into "1.0" .. "end"
TkIndex(t, p) == IF p < 1 THEN 1 ELSE IF p > TkEnd(t) THEN TkEnd(t) ELSE p

\* text_widget.get(index): the character at the index, '' at "end"; an
\* index before "1.0" is "1.0"
TkGetChar(t, p) == IF p > Len(t) THEN "" ELSE t[Max(p, 1)]

\* text_widget.get(index1, index2)
TkGet(t, a, b) == SubSeq(t, TkIndex(t, a), TkIndex(t, b) - 1)

\* "{index} linestart"
TkLineStart(t, p) ==
    LET q == TkIndex(t, p)
        nls == {k \in 1..(q - 1) : t[k] = NL}
    IN  IF nls = {} THEN 1
        ELSE (CHOOSE k \in nls : \A j \in nls : j <= k) + 1

\* "{index} lineend": the position of the newline that ends the line
TkLineEnd(t, p) ==
    LET q == TkIndex(t, p)
        nls == {k \in q..Len(t) : t[k] = NL}
    IN  IF q = TkEnd(t) THEN q
        ELSE CHOOSE k \in nls : \A j \in nls : k <= j

\* The index "{line}.{col}" (line 1-based, col 0-based) as a position
TkLineCol(t, line, col) ==
    LET nls == {p \in 1..Len(t) : t[p] = NL}
        before == {p \in nls : Cardinality({q \in nls : q <= p}) = line - 1}
        ls == IF line <= 1 THEN 1
              ELSE IF before = {} THEN TkEnd(t)
              ELSE (CHOOSE p \in before : TRUE) + 1
    IN  IF ls = TkEnd(t) THEN ls ELSE Min(ls + col, TkLineEnd(t, ls))

\* text_widget.tag_prevrange(tag, index): the last range that starts before index
TagPrevRange(rs, p) ==
    LET c == {i \in 1..Len(rs) : rs[i][1] < p}
    IN  IF c = {} THEN <<>>
        ELSE rs[CHOOSE i \in c : \A j \in c : j <= i]

\* text_widget.tag_nextrange(tag, index): the first range that starts at or after index
TagNextRange(rs, p) ==
    LET c == {i \in 1..Len(rs) : rs[i][1] >= p}
    IN  IF c = {} THEN <<>>
        ELSE rs[CHOOSE i \in c : \A j \in c : i <= j]

RECURSIVE Normalize(_)
\* Ranges of a tag are kept sorted; empty ranges vanish, touching ranges are one range
Normalize(rs) ==
    IF rs = <<>> THEN <<>>
    ELSE IF rs[1][1] >= rs[1][2] THEN Normalize(Tail(rs))
    ELSE IF Len(rs) = 1 THEN rs
    ELSE IF rs[2][1] >= rs[2][2] THEN Normalize(<<rs[1]>> \o Tail(Tail(rs)))
    ELSE IF rs[2][1] <= rs[1][2]
         THEN Normalize(<<(<<rs[1][1], Max(rs[1][2], rs[2][2])>>)>> \o Tail(Tail(rs)))
    ELSE <<rs[1]>> \o Normalize(Tail(rs))

\* text_widget.tag_add(tag, index1, index2)
TagAdd(t, rs, a, b) ==
    LET a1 == TkIndex(t, a)
        b1 == TkIndex(t, b)
        lo == SelectSeq(rs, LAMBDA r : r[1] < a1)
        hi == SelectSeq(rs, LAMBDA r : r[1] >= a1)
    IN  IF a1 >= b1 THEN rs
        ELSE Normalize(lo \o <<(<<a1, b1>>)>> \o hi)

\* text_widget.tag_remove(tag, index1, index2)
TagRemove(rs, a, b) ==
    LET Cut(r) ==
            (IF r[1] < a THEN <<(<<r[1], Min(r[2], a)>>)>> ELSE <<>>)
            \o (IF r[2] > b THEN <<(<<Max(r[1], b), r[2]>>)>> ELSE <<>>)
        F[i \in 0..Len(rs)] == IF i = 0 THEN <<>> ELSE F[i - 1] \o Cut(rs[i])
    IN  Normalize(F[Len(rs)])

\* Where a position ends up when the characters [a, b) are deleted
DeleteShift(p, a, b) == IF p <= a THEN p ELSE IF p < b THEN a ELSE p - (b - a)

\* Where a position ends up when n characters are inserted at i; a range
\* that has i strictly inside grows, a range that starts or ends at i does not
\* take the new characters in
InsertShiftStart(p, i, n) == IF p >= i THEN p + n ELSE p

InsertShiftEnd(p, i, n) == IF p > i THEN p + n ELSE p

\* The interval Tk really deletes for delete(index1, index2).  Tk keeps a
\* final newline: when index2 is "end", index2 is moved before the final
\* newline and, when index1 is at the start of a line other than the first,
\* index1 is moved one character back.
TkDeleteFrom(t, a, b) ==
    LET a1 == TkIndex(t, a)
        b1 == TkIndex(t, b)
    IN  IF a1 < b1 /\ b1 = TkEnd(t) /\ a1 > 1 /\ t[a1 - 1] = NL THEN a1 - 1 ELSE a1

TkDeleteTo(t, a, b) ==
    LET a1 == TkIndex(t, a)
        b1 == TkIndex(t, b)
    IN  IF a1 < b1 /\ b1 = TkEnd(t) THEN b1 - 1 ELSE b1

\* text_widget.delete(index1, index2): the text afterwards
TkDeleteText(t, a, b) ==
    LET a2 == TkDeleteFrom(t, a, b)
        b2 == TkDeleteTo(t, a, b)
    IN  IF a2 >= b2 THEN t
        ELSE SubSeq(t, 1, a2 - 1) \o SubSeq(t, b2, Len(t))

\* The ranges of a tag after a delete which leaves the tags on the final
\* newline in place
TkDeleteTagsKeptAtEnd(t, rs, a, b) ==
    LET a1 == TkIndex(t, a)
        b1 == TkIndex(t, b)
        a2 == TkDeleteFrom(t, a, b)
        b2 == TkDeleteTo(t, a, b)
    IN  IF a1 >= b1 THEN rs
        ELSE IF a2 >= b2 THEN rs
        ELSE Normalize([i \in 1..Len(rs) |->
                <<DeleteShift(rs[i][1], a2, b2), DeleteShift(rs[i][2], a2, b2)>>])

\* text_widget.delete(index1, index2): the ranges of a tag afterwards.  When
\* index2 is "end", the tags on the final newline that stays are removed.
TkDeleteTags(t, rs, a, b) ==
    LET a1 == TkIndex(t, a)
        b1 == TkIndex(t, b)
        a2 == TkDeleteFrom(t, a, b)
        b2 == TkDeleteTo(t, a, b)
        rs1 == IF a1 < b1 /\ b1 = TkEnd(t) THEN TagRemove(rs, b2, b1) ELSE rs
    IN  IF a1 >= b1 THEN rs
        ELSE IF a2 >= b2 THEN rs1
        ELSE Normalize([i \in 1..Len(rs1) |->
                <<DeleteShift(rs1[i][1], a2, b2), DeleteShift(rs1[i][2], a2, b2)>>])

\* Where text_widget.insert(index, chars) puts the characters: an insert at
\* "end" goes before the final newline
TkInsertAt(t, p) == Min(TkIndex(t, p), Len(t))

\* text_widget.insert(index, chars): the text afterwards
TkInsertText(t, p, chars) ==
    LET i == TkInsertAt(t, p)
    IN  SubSeq(t, 1, i - 1) \o chars \o SubSeq(t, i, Len(t))

\* text_widget.insert(index, chars) without a tag list: the ranges of a tag
\* afterwards.  The new characters get the tag only when the characters on
\* both sides have it.
TkInsertTags(t, rs, p, chars) ==
    LET i == TkInsertAt(t, p)
        n == Len(chars)
    IN  [k \in 1..Len(rs) |->
            <<InsertShiftStart(rs[k][1], i, n), InsertShiftEnd(rs[k][2], i, n)>>]

---------------------------------------------------------------------------
(* The sealing comments *)

SealedWords ==
    {<<"s", "e", "a", "l", "e", "d">>, <<"S", "e", "a", "l", "e", "d">>,
     <<"S", "E", "A", "L", "E", "D">>}

OnWords == {<<"o", "n">>, <<"O", "n">>, <<"O", "N">>}

OffWords == {<<"o", "f", "f">>, <<"O", "f", "f">>, <<"O", "F", "F">>}

\* The first position at or after i of the line that holds no whitespace (\s*)
SkipSpaces(line, i) ==
    CHOOSE j \in i..(Len(line) + 1) :
        /\ \A k \in i..(j - 1) : IsSpace(line[k])
        /\ j = Len(line) + 1 \/ ~IsSpace(line[j])

\* One of the words stands at position i of the line
WordAt(line, i, words) ==
    \E w \in words : i + Len(w) - 1 <= Len(line) /\ SubSeq(line, i, i + Len(w) - 1) = w

\* The length of the prefix group when the line matches
\*   ^(?P<prefix>\s*#\s*(sealed|Sealed|SEALED)\s*(:|\s)\s*(<words>))(?P<suffix>(\s*|\s+.*))?$
\* and 0 when it does not match
MatchComment(line, words, wordLen) ==
    LET hash == SkipSpaces(line, 1)
        kw == SkipSpaces(line, hash + 1)
        sep == SkipSpaces(line, kw + 6)
        onoff == IF sep <= Len(line) /\ line[sep] = ":" THEN SkipSpaces(line, sep + 1)
                 ELSE IF sep > kw + 6 THEN sep
                 ELSE 0
        rest == onoff + wordLen
    IN  IF /\ hash <= Len(line)
           /\ line[hash] = "#"
           /\ WordAt(line, kw, SealedWords)
           /\ onoff # 0
           /\ WordAt(line, onoff, words)
           /\ (rest > Len(line) \/ IsSpace(line[rest]))
        THEN rest - 1
        ELSE 0

\* COMMENT_FIRST_RE.match(line)
COMMENT_FIRST_RE(line) == MatchComment(line, OnWords, 2)

\* COMMENT_LAST_RE.match(line)
COMMENT_LAST_RE(line) == MatchComment(line, OffWords, 3)

\* An Optional value: None is the empty sequence, a value x is <<x>>
None == <<>>

Some(x) == <<x>>

\* A SealMarker: First or Last, with the 0-based line number, the prefix
\* group and the stripped suffix group of the match.  The suffix group
\* (\s*|\s+.*) matches the empty string, so that a marker read from a line
\* always has a suffix, '' when the line ends after the keyword.
SealMarker(kind, lineno, line, prefixLen) ==
    [kind |-> kind,
     lineno |-> lineno,
     prefix |-> SubSeq(line, 1, prefixLen),
     suffix |-> Some(Strip(SubSeq(line, prefixLen + 1, Len(line))))]

\* extract_markers with the line numbers counted from 1
extract_markers_one_based(lines) ==
    LET F[i \in 0..Len(lines)] ==
            IF i = 0 THEN <<>>
            ELSE IF COMMENT_FIRST_RE(lines[i]) # 0
                 THEN Append(F[i - 1],
                             SealMarker("First", i, lines[i], COMMENT_FIRST_RE(lines[i])))
            ELSE IF COMMENT_LAST_RE(lines[i]) # 0
                 THEN Append(F[i - 1],
                             SealMarker("Last", i, lines[i], COMMENT_LAST_RE(lines[i])))
            ELSE F[i - 1]
    IN  F[Len(lines)]

\* extract_markers(lines)
extract_markers(lines) ==
    LET F[i \in 0..Len(lines)] ==
            IF i = 0 THEN <<>>
            ELSE IF COMMENT_FIRST_RE(lines[i]) # 0
                 THEN Append(F[i - 1],
                             SealMarker("First", i - 1, lines[i], COMMENT_FIRST_RE(lines[i])))
            ELSE IF COMMENT_LAST_RE(lines[i]) # 0
                 THEN Append(F[i - 1],
                             SealMarker("Last", i - 1, lines[i], COMMENT_LAST_RE(lines[i])))
            ELSE F[i - 1]
    IN  F[Len(lines)]

\* An error message of parse_blocks or verify_blocks: its kind and the 1-based lines it cites
ErrorMessage(kind, line, other) == [kind |-> kind, line |-> line, other |-> other]

\* The iteration of parse_blocks that puts a closed block before the others
ParseStepPrepend(st, marker) ==
    IF st.error # None \/ st.raised # "" THEN st
    ELSE IF marker.kind = "First"
    THEN IF st.first = None
         THEN [st EXCEPT !.first = Some(marker)]
         ELSE [st EXCEPT !.error =
                Some(ErrorMessage("double start", marker.lineno + 1, st.first[1].lineno + 1))]
    ELSE IF st.first = None
    THEN [st EXCEPT !.error = Some(ErrorMessage("end without start", marker.lineno + 1, 0))]
    ELSE LET first == st.first[1]
         IN  IF first.suffix = None /\ marker.suffix # None
             THEN [st EXCEPT !.error =
                    Some(ErrorMessage("no suffix at start", first.lineno + 1, marker.lineno + 1))]
             ELSE IF first.suffix # None /\ marker.suffix = None
             THEN [st EXCEPT !.error =
                    Some(ErrorMessage("no suffix at end", first.lineno + 1, marker.lineno + 1))]
             ELSE IF first.suffix = None \/ marker.suffix = None
             THEN [st EXCEPT !.raised = "AssertionError"]
             ELSE IF first.suffix # marker.suffix
             THEN [st EXCEPT !.error =
                    Some(ErrorMessage("suffix mismatch", first.lineno + 1, marker.lineno + 1))]
             ELSE [st EXCEPT !.blocks = <<[first |-> first, last |-> marker]>> \o st.blocks,
                             !.first = None]

\* The iteration of parse_blocks that lets a First marker take the place of
\* the open one
ParseStepRestart(st, marker) ==
    IF st.error # None \/ st.raised # "" THEN st
    ELSE IF marker.kind = "First"
    THEN [st EXCEPT !.first = Some(marker)]
    ELSE IF st.first = None
    THEN [st EXCEPT !.error = Some(ErrorMessage("end without start", marker.lineno + 1, 0))]
    ELSE LET first == st.first[1]
         IN  IF first.suffix # marker.suffix
             THEN [st EXCEPT !.error =
                    Some(ErrorMessage("suffix mismatch", first.lineno + 1, marker.lineno + 1))]
             ELSE [st EXCEPT !.blocks = Append(st.blocks, [first |-> first, last |-> marker]),
                             !.first = None]

\* The iteration of parse_blocks that takes the empty suffix for a missing
\* one and asks for a hash on both markers
ParseStepHashRequired(st, marker) ==
    IF st.error # None \/ st.raised # "" THEN st
    ELSE IF marker.kind = "First"
    THEN IF st.first = None
         THEN [st EXCEPT !.first = Some(marker)]
         ELSE [st EXCEPT !.error =
                Some(ErrorMessage("double start", marker.lineno + 1, st.first[1].lineno + 1))]
    ELSE IF st.first = None
    THEN [st EXCEPT !.error = Some(ErrorMessage("end without start", marker.lineno + 1, 0))]
    ELSE LET first == st.first[1]
         IN  IF first.suffix = Some(<<>>)
             THEN [st EXCEPT !.error =
                    Some(ErrorMessage("no suffix at start", first.lineno + 1, marker.lineno + 1))]
             ELSE IF first.suffix # marker.suffix
             THEN [st EXCEPT !.error =
                    Some(ErrorMessage("suffix mismatch", first.lineno + 1, marker.lineno + 1))]
             ELSE [st EXCEPT !.blocks = Append(st.blocks, [first |-> first, last |-> marker]),
                             !.first = None]

\* One iteration of the loop of parse_blocks over the markers.  The state of
\* the pass: the open First marker (Optional), the blocks so far, the error
\* returned (Optional) and the exception raised ("" when none).
ParseStep(st, marker) ==
    IF st.error # None \/ st.raised # "" THEN st
    ELSE IF marker.kind = "First"
    THEN IF st.first = None
         THEN [st EXCEPT !.first = Some(marker)]
         ELSE [st EXCEPT !.error =
                Some(ErrorMessage("double start", marker.lineno + 1, st.first[1].lineno + 1))]
    ELSE IF marker.kind = "Last"
    THEN IF st.first = None
         THEN [st EXCEPT !.error = Some(ErrorMessage("end without start", marker.lineno + 1, 0))]
         ELSE LET first == st.first[1]
              IN  IF first.suffix = None /\ marker.suffix # None
                  THEN [st EXCEPT !.error =
                         Some(ErrorMessage("no suffix at start", first.lineno + 1, marker.lineno + 1))]
                  ELSE IF first.suffix # None /\ marker.suffix = None
                  THEN [st EXCEPT !.error =
                         Some(ErrorMessage("no suffix at end", first.lineno + 1, marker.lineno + 1))]
                  \* assert first.suffix is not None; assert marker.suffix is not None
                  ELSE IF first.suffix = None \/ marker.suffix = None
                  THEN [st EXCEPT !.raised = "AssertionError"]
                  ELSE IF first.suffix # marker.suffix
                  THEN [st EXCEPT !.error =
                         Some(ErrorMessage("suffix mismatch", first.lineno + 1, marker.lineno + 1))]
                  \* Block.__init__ requires first.lineno < last.lineno
                  ELSE IF ~(first.lineno < marker.lineno)
                  THEN [st EXCEPT !.raised = "ViolationError"]
                  ELSE [st EXCEPT !.blocks = Append(st.blocks, [first |-> first, last |-> marker]),
                                  !.first = None]
    ELSE st

\* The postconditions of parse_blocks that ask for fewer blocks than half the
\* markers
ParseEnsureFewerBlocks(markers, blocks) ==
    /\ \A k \in 1..(Len(blocks) - 1) : blocks[k].last.lineno < blocks[k + 1].first.lineno
    /\ 2 * Len(blocks) < Len(markers)

\* The postconditions (ensure) of parse_blocks on the blocks returned:
\* "Blocks non-overlapping" and "Not too many blocks"
ParseEnsure(markers, blocks) ==
    /\ \A k \in 1..(Len(blocks) - 1) : blocks[k].last.lineno < blocks[k + 1].first.lineno
    /\ 2 * Len(blocks) <= Len(markers)

\* parse_blocks(markers): [blocks (Optional), error (Optional), raised]
parse_blocks(markers) ==
    LET F[i \in 0..Len(markers)] ==
            IF i = 0 THEN [first |-> None, blocks |-> <<>>, error |-> None, raised |-> ""]
            ELSE ParseStep(F[i - 1], markers[i])
        final == F[Len(markers)]
    IN  IF final.raised # "" THEN [blocks |-> None, error |-> None, raised |-> final.raised]
        ELSE IF final.error = None /\ final.first = None /\ ~ParseEnsure(markers, final.blocks)
        THEN [blocks |-> None, error |-> None, raised |-> "ViolationError"]
        ELSE IF final.error # None
        THEN [blocks |-> None, error |-> final.error, raised |-> ""]
        ELSE IF final.first # None
        THEN [blocks |-> None,
              error |-> Some(ErrorMessage("open block at the end", final.first[1].lineno + 1, 0)),
              raised |-> ""]
        ELSE [blocks |-> Some(final.blocks), error |-> None, raised |-> ""]

\* hashlib.md5(content_to_seal.encode("utf-8")).hexdigest()[-8:], tabulated
\* for the block indices and block contents of the model: the blocks 0 and 1
\* with up to three lines "a" or "b", the blocks 2 and 3 without content or
\* with the line "b"
Md5Tail ==
    (<<"0", ".">> :> <<"8", "8", "2", "0", "9", "2", "9", "4">>) @@
    (<<"0", ".", "a">> :> <<"1", "e", "1", "f", "e", "7", "4", "d">>) @@
    (<<"0", ".", "b">> :> <<"2", "8", "b", "7", "0", "8", "a", "7">>) @@
    (<<"0", ".", "a", NL, "a">> :> <<"f", "7", "1", "b", "b", "e", "5", "f">>) @@
    (<<"0", ".", "a", NL, "b">> :> <<"0", "9", "f", "1", "f", "b", "d", "0">>) @@
    (<<"0", ".", "b", NL, "a">> :> <<"3", "4", "6", "c", "1", "e", "5", "0">>) @@
    (<<"0", ".", "b", NL, "b">> :> <<"a", "3", "7", "f", "2", "d", "4", "5">>) @@
    (<<"0", ".", "a", NL, "a", NL, "a">> :> <<"e", "5", "2", "f", "b", "8", "9", "7">>) @@
    (<<"0", ".", "a", NL, "a", NL, "b">> :> <<"9", "e", "6", "6", "a", "1", "3", "2">>) @@
    (<<"0", ".", "a", NL, "b", NL, "a">> :> <<"2", "7", "f", "e", "a", "2", "a", "7">>) @@
    (<<"0", ".", "a", NL, "b", NL, "b">> :> <<"c", "4", "c", "2", "7", "4", "6", "7">>) @@
    (<<"0", ".", "b", NL, "a", NL, "a">> :> <<"5", "3", "a", "a", "0", "1", "0", "5">>) @@
    (<<"0", ".", "b", NL, "a", NL, "b">> :> <<"1", "6", "a", "8", "3", "b", "e", "e">>) @@
    (<<"0", ".", "b", NL, "b", NL, "a">> :> <<"b", "6", "9", "7", "a", "7", "8", "2">>) @@
    (<<"0", ".", "b", NL, "b", NL, "b">> :> <<"d", "a", "c", "b", "5", "b", "1", "d">>) @@
    (<<"1", ".">> :> <<"d", "0", "9", "d", "2", "e", "b", "4">>) @@
    (<<"1", ".", "a">> :> <<"c", "f", "a", "d", "4", "8", "4", "3">>) @@
    (<<"1", ".", "b">> :> <<"e", "2", "4", "3", "d", "9", "2", "5">>) @@
    (<<"1", ".", "a", NL, "a">> :> <<"4", "f", "f", "e", "d", "8", "3", "1">>) @@
    (<<"1", ".", "a", NL, "b">> :> <<"f", "1", "b", "1", "7", "0", "8", "b">>) @@
    (<<"1", ".", "b", NL, "a">> :> <<"5", "6", "8", "1", "9", "6", "4", "9">>) @@
    (<<"1", ".", "b", NL, "b">> :> <<"2", "b", "e", "7", "7", "9", "5", "a">>) @@
    (<<"1", ".", "a", NL, "a", NL, "a">> :> <<"4", "f", "7", "8", "a", "5", "b", "3">>) @@
    (<<"1", ".", "a", NL, "a", NL, "b">> :> <<"1", "9", "2", "8", "b", "5", "3", "7">>) @@
    (<<"1", ".", "a", NL, "b", NL, "a">> :> <<"b", "2", "9", "1", "d", "4", "8", "5">>) @@
    (<<"1", ".", "a", NL, "b", NL, "b">> :> <<"a", "5", "8", "c", "1", "7", "5", "5">>) @@
    (<<"1", ".", "b", NL, "a", NL, "a">> :> <<"9", "6", "8", "f", "2", "0", "4", "3">>) @@
    (<<"1", ".", "b", NL, "a", NL, "b">> :> <<"a", "7", "8", "a", "5", "4", "e", "8">>) @@
    (<<"1", ".", "b", NL, "b", NL, "a">> :> <<"b", "5", "4", "6", "a", "5", "1", "2">>) @@
    (<<"1", ".", "b", NL, "b", NL, "b">> :> <<"e", "7", "0", "6", "d", "a", "7", "f">>) @@
    (<<"2", ".">> :> <<"8", "8", "2", "e", "1", "f", "d", "6">>) @@
    (<<"2", ".", "b">> :> <<"2", "d", "9", "9", "8", "8", "4", "b">>) @@
    (<<"3", ".">> :> <<"d", "9", "e", "4", "f", "7", "b", "a">>) @@
    (<<"3", ".", "b">> :> <<"5", "6", "f", "f", "4", "7", "9", "c">>)

\* str(i) for the block indices of the model
Decimal(i) == <<(<<"0", "1", "2", "3", "4", "5", "6", "7", "8", "9">>)[i + 1]>>

\* f"{i}.{content}"
ContentToSeal(i, content) == Decimal(i) \o <<".">> \o content

truncated_md5(i, content) == Md5Tail[ContentToSeal(i, content)]

\* "\n".join(lines[block.first.lineno + 1 : block.last.lineno])
BlockContent(lines, block) ==
    Join(SubSeq(lines, block.first.lineno + 2, block.last.lineno))

\* block.first.suffix.strip() if block.first.suffix is not None else ""
got_hash(block) == IF block.first.suffix = None THEN <<>> ELSE Strip(block.first.suffix[1])

\* verify_blocks(lines, blocks): [ok_blocks, errors]
verify_blocks(lines, blocks) ==
    LET n == Len(blocks)
        \* the inner loop over the candidate block indices
        Inner(st, block) ==
            LET hits == {i \in st.matched_blocks..(n - 1) :
                            truncated_md5(i, BlockContent(lines, block)) = got_hash(block)}
                G[k \in 0..Cardinality(hits)] ==
                    IF k = 0 THEN st.ok_blocks ELSE Append(G[k - 1], block)
            IN  [matched_blocks |-> st.matched_blocks + Cardinality(hits),
                 ok_blocks |-> G[Cardinality(hits)],
                 errors |-> IF hits = {}
                            THEN Append(st.errors,
                                        ErrorMessage("invalid hash", block.first.lineno + 1, 0))
                            ELSE st.errors]
        F[i \in 0..n] ==
            IF i = 0 THEN [matched_blocks |-> 0, ok_blocks |-> <<>>, errors |-> <<>>]
            ELSE Inner(F[i - 1], blocks[i])
    IN  [ok_blocks |-> F[n].ok_blocks, errors |-> F[n].errors]

---------------------------------------------------------------------------
(* The tags of the sealed blocks *)

\* The check of one range which lets a range start in the middle of a line
CheckRangeNoLineStart(t, prev, r) ==
    LET start == r[1]
        end == r[2]
        first_line == TkGet(t, TkLineStart(t, start), TkLineEnd(t, start))
        last_line == TkGet(t, TkLineStart(t, end), TkLineEnd(t, end))
    IN  IF start >= end THEN "start >= end"
        ELSE IF prev # None /\ (prev[1][1] >= start \/ prev[1][2] > start)
        THEN "overlaps the next range"
        ELSE IF COMMENT_FIRST_RE(first_line) = 0 THEN "first line invalid"
        ELSE IF COMMENT_LAST_RE(last_line) = 0 THEN "last line invalid"
        ELSE IF TkGetChar(t, end) # NL THEN "no new-line at the end"
        ELSE ""

\* The check of check_tags on one range, given the previous range (Optional):
\* the kind of the error, "" when there is none
CheckRange(t, prev, r) ==
    LET start == r[1]
        end == r[2]
        first_line == TkGet(t, TkLineStart(t, start), TkLineEnd(t, start))
        last_line == TkGet(t, TkLineStart(t, end), TkLineEnd(t, end))
    IN  IF start >= end THEN "start >= end"
        ELSE IF prev # None /\ (prev[1][1] >= start \/ prev[1][2] > start)
        THEN "overlaps the next range"
        ELSE IF COMMENT_FIRST_RE(first_line) = 0 THEN "first line invalid"
        ELSE IF COMMENT_LAST_RE(last_line) = 0 THEN "last line invalid"
        ELSE IF start > 1 /\ TkGetChar(t, start - 1) # NL THEN "no new-line before"
        ELSE IF TkGetChar(t, end) # NL THEN "no new-line at the end"
        ELSE ""

\* check_tags(text_widget): the error of the first range that has one
\* (Optional)
check_tags(t, rs) ==
    LET Err(i) == CheckRange(t, IF i = 1 THEN None ELSE Some(rs[i - 1]), rs[i])
        bad == {i \in 1..Len(rs) : Err(i) # ""}
    IN  IF bad = {} THEN None
        ELSE Some(Err(CHOOSE i \in bad : \A j \in bad : i <= j))

\* The loop of set_tags with every tag ending where the last block ends
SetTagsAddToLastBlock(t, lines, ok_blocks) ==
    LET F[i \in 0..Len(ok_blocks)] ==
            IF i = 0 THEN <<>>
            ELSE LET block == ok_blocks[i]
                     last == ok_blocks[Len(ok_blocks)].last
                     tag_start == TkLineCol(t, block.first.lineno + 1, 0)
                     tag_end == TkLineCol(t, last.lineno + 1, Len(lines[last.lineno + 1]))
                 IN  TagAdd(t, F[i - 1], tag_start, tag_end)
    IN  F[Len(ok_blocks)]

\* The loop of set_tags over the verified blocks: one tag_add per block
SetTagsAdd(t, lines, ok_blocks) ==
    LET F[i \in 0..Len(ok_blocks)] ==
            IF i = 0 THEN <<>>
            ELSE LET block == ok_blocks[i]
                     tag_start == TkLineCol(t, block.first.lineno + 1, 0)
                     tag_end == TkLineCol(t, block.last.lineno + 1,
                                          Len(lines[block.last.lineno + 1]))
                 IN  TagAdd(t, F[i - 1], tag_start, tag_end)
    IN  F[Len(ok_blocks)]

\* set_tags which tags the blocks that are verified also when it returns
\* the errors of the other blocks
set_tags_verified_only(t) ==
    LET lines == SplitLines(TkGet(t, 1, TkEnd(t)))
        markers == extract_markers(lines)
        parsed == parse_blocks(markers)
        verified == verify_blocks(lines, parsed.blocks[1])
        tags == SetTagsAdd(t, lines, verified.ok_blocks)
    IN  IF parsed.raised # "" THEN [errors |-> <<>>, sealed |-> <<>>, raised |-> parsed.raised]
        ELSE IF parsed.error # None
        THEN [errors |-> <<parsed.error[1]>>, sealed |-> <<>>, raised |-> ""]
        ELSE IF verified.errors # <<>>
        THEN [errors |-> verified.errors, sealed |-> tags, raised |-> ""]
        ELSE [errors |-> <<>>, sealed |-> tags,
              raised |-> IF check_tags(t, tags) = None THEN "" ELSE "ViolationError"]

\* set_tags(text_widget) on a widget without sealing tags: the errors
\* returned, the ranges of the sealing tag afterwards, the exception raised
set_tags(t) ==
    LET lines == SplitLines(TkGet(t, 1, TkEnd(t)))
        markers == extract_markers(lines)
        parsed == parse_blocks(markers)
        verified == verify_blocks(lines, parsed.blocks[1])
        tags == SetTagsAdd(t, lines, verified.ok_blocks)
    IN  IF parsed.raised # "" THEN [errors |-> <<>>, sealed |-> <<>>, raised |-> parsed.raised]
        ELSE IF parsed.error # None
        THEN [errors |-> <<parsed.error[1]>>, sealed |-> <<>>, raised |-> ""]
        ELSE IF verified.errors # <<>>
        THEN [errors |-> verified.errors, sealed |-> <<>>, raised |-> ""]
        ELSE [errors |-> <<>>, sealed |-> tags,
              raised |-> IF check_tags(t, tags) = None THEN "" ELSE "ViolationError"]

\* capture_sealed_blocks(text_widget) with its precondition: the texts of the
\* tagged ranges, [result, raised]
capture_sealed_blocks(t, rs) ==
    IF check_tags(t, rs) # None THEN [result |-> <<>>, raised |-> "ViolationError"]
    ELSE [result |-> [i \in 1..Len(rs) |-> TkGet(t, rs[i][1], rs[i][2])], raised |-> ""]

---------------------------------------------------------------------------
(* The guards *)

\* is_insertable without the rejection of an index inside a sealed block
is_insertable_inside(t, rs, index, chars) ==
    LET idx == TkIndex(t, index)
        prevrange == TagPrevRange(rs, idx)
        nextrange == TagNextRange(rs, idx)
    IN  IF Len(chars) = 0 THEN TRUE
        ELSE IF prevrange # <<>> /\ idx = prevrange[2] THEN StartsWithNL(chars)
        ELSE IF nextrange # <<>>
        THEN IF idx = nextrange[1] THEN EndsWithNL(chars) ELSE TRUE
        ELSE TRUE

\* is_insertable which lets any text in right after a sealed block
is_insertable_after_block(t, rs, index, chars) ==
    LET idx == TkIndex(t, index)
        prevrange == TagPrevRange(rs, idx)
        nextrange == TagNextRange(rs, idx)
    IN  IF Len(chars) = 0 THEN TRUE
        ELSE IF prevrange # <<>> /\ idx = prevrange[2] THEN TRUE
        ELSE IF prevrange # <<>> /\ idx <= prevrange[2] THEN FALSE
        ELSE IF nextrange # <<>>
        THEN IF idx = nextrange[1] THEN EndsWithNL(chars) ELSE TRUE
        ELSE TRUE

\* is_insertable which lets any text in right before a sealed block
is_insertable_before_block(t, rs, index, chars) ==
    LET idx == TkIndex(t, index)
        prevrange == TagPrevRange(rs, idx)
    IN  IF Len(chars) = 0 THEN TRUE
        ELSE IF prevrange # <<>> /\ idx = prevrange[2] THEN StartsWithNL(chars)
        ELSE IF prevrange # <<>> /\ idx <= prevrange[2] THEN FALSE
        ELSE TRUE

\* is_insertable which asks for a final new-line anywhere before a sealed
\* block ("index <= start" for "index == start")
is_insertable_up_to_start(t, rs, index, chars) ==
    LET idx == TkIndex(t, index)
        prevrange == TagPrevRange(rs, idx)
        nextrange == TagNextRange(rs, idx)
    IN  IF Len(chars) = 0 THEN TRUE
        ELSE IF prevrange # <<>> /\ idx = prevrange[2] THEN StartsWithNL(chars)
        ELSE IF prevrange # <<>> /\ idx <= prevrange[2] THEN FALSE
        ELSE IF nextrange # <<>>
        THEN IF idx <= nextrange[1] THEN EndsWithNL(chars) ELSE TRUE
        ELSE TRUE

\* is_insertable without the early return for the empty text
is_insertable_no_empty(t, rs, index, chars) ==
    LET idx == TkIndex(t, index)
        prevrange == TagPrevRange(rs, idx)
        nextrange == TagNextRange(rs, idx)
    IN  IF prevrange # <<>> /\ idx = prevrange[2] THEN StartsWithNL(chars)
        ELSE IF prevrange # <<>> /\ idx <= prevrange[2] THEN FALSE
        ELSE IF nextrange # <<>>
        THEN IF idx = nextrange[1] THEN EndsWithNL(chars) ELSE TRUE
        ELSE TRUE

\* is_insertable(text_widget, index, chars)
is_insertable(t, rs, index, chars) ==
    LET idx == TkIndex(t, index)
        prevrange == TagPrevRange(rs, idx)
        nextrange == TagNextRange(rs, idx)
    IN  IF Len(chars) = 0 THEN TRUE
        ELSE IF prevrange # <<>> /\ idx = prevrange[2] THEN StartsWithNL(chars)
        ELSE IF prevrange # <<>> /\ idx <= prevrange[2] THEN FALSE
        ELSE IF nextrange # <<>>
        THEN IF idx = nextrange[1] THEN EndsWithNL(chars) ELSE TRUE
        ELSE TRUE

\* _is_deletable_wo_preconditions with "index < end" for "index <= end": the
\* new-line at the end of a sealed block is not covered
is_deletable_before_end(t, rs, index) ==
    LET idx == TkIndex(t, index)
        prevrange == TagPrevRange(rs, idx)
        nextrange == TagNextRange(rs, idx)
    IN  IF prevrange # <<>> /\ idx < prevrange[2] THEN "False"
        ELSE IF nextrange # <<>>
        THEN IF idx = nextrange[1] THEN "False"
             ELSE IF TkIndex(t, idx + 1) = nextrange[1]
             THEN IF idx = 1 THEN "True"
                  ELSE IF TkGetChar(t, idx) # NL THEN "AssertionError"
                  ELSE IF TkGetChar(t, TkIndex(t, idx - 1)) = NL THEN "True"
                  ELSE "False"
             ELSE "True"
        ELSE "True"

\* _is_deletable_wo_preconditions(text_widget, index): "True", "False", or
\* "AssertionError" when the character before a sealed block is no new-line
is_deletable_wo_preconditions(t, rs, index) ==
    LET idx == TkIndex(t, index)
        prevrange == TagPrevRange(rs, idx)
        nextrange == TagNextRange(rs, idx)
    IN  IF prevrange # <<>> /\ idx <= prevrange[2] THEN "False"
        ELSE IF nextrange # <<>>
        THEN IF idx = nextrange[1] THEN "False"
             ELSE IF TkIndex(t, idx + 1) = nextrange[1]
             THEN IF idx = 1 THEN "True"
                  ELSE IF TkGetChar(t, idx) # NL THEN "AssertionError"
                  ELSE IF TkGetChar(t, TkIndex(t, idx - 1)) = NL THEN "True"
                  ELSE "False"
             ELSE "True"
        ELSE "True"

\* is_deletable(text_widget, index)
is_deletable(t, rs, index) == is_deletable_wo_preconditions(t, rs, index)

---------------------------------------------------------------------------
(* Deletion of a range *)

\* The start of the walk without the step over the new-line that ends the
\* sealed block
PinCandidateStartAtEnd(t, rs, index1) ==
    LET prevrange == TagPrevRange(rs, index1)
    IN  IF prevrange # <<>> /\ index1 <= prevrange[2]
        THEN prevrange[2]
        ELSE index1

\* The start of the walk of pin_deletable_ranges: index1, or the position
\* after the new-line that ends the sealed block which index1 hits
PinCandidateStart(t, rs, index1) ==
    LET prevrange == TagPrevRange(rs, index1)
    IN  IF prevrange # <<>> /\ index1 <= prevrange[2]
        THEN TkIndex(t, prevrange[2] + 1)
        ELSE index1

\* One iteration of the walk which does not keep the new-line before the
\* sealed block
PinAppendUpToStart(t, candidate_start, index2, start) ==
    IF candidate_start = start THEN <<>>
    ELSE IF index2 < start THEN <<(<<candidate_start, index2>>)>>
    ELSE <<(<<candidate_start, start>>)>>

\* One iteration of the walk which does not look whether the selection ends
\* before the sealed block
PinAppendBeyondIndex2(t, candidate_start, index2, start) ==
    IF candidate_start = start THEN <<>>
    ELSE IF candidate_start = 1 THEN <<(<<candidate_start, start>>)>>
    ELSE IF TkGetChar(t, TkIndex(t, candidate_start - 1)) = NL
    THEN <<(<<candidate_start, start>>)>>
    ELSE LET candidate_end == TkIndex(t, start - 1)
         IN  IF candidate_start < candidate_end
             THEN <<(<<candidate_start, candidate_end>>)>>
             ELSE <<>>

\* One iteration of the walk which also appends an empty range
PinAppendEmptyRange(t, candidate_start, index2, start) ==
    IF candidate_start = start THEN <<>>
    ELSE IF index2 < start THEN <<(<<candidate_start, index2>>)>>
    ELSE IF candidate_start = 1 THEN <<(<<candidate_start, start>>)>>
    ELSE IF TkGetChar(t, TkIndex(t, candidate_start - 1)) = NL
    THEN <<(<<candidate_start, start>>)>>
    ELSE <<(<<candidate_start, TkIndex(t, start - 1)>>)>>

\* One iteration of the walk which does not skip a sealed block right at the
\* cursor
PinAppendAtStart(t, candidate_start, index2, start) ==
    IF index2 < start THEN <<(<<candidate_start, index2>>)>>
    ELSE IF candidate_start = 1 THEN <<(<<candidate_start, start>>)>>
    ELSE IF TkGetChar(t, TkIndex(t, candidate_start - 1)) = NL
    THEN <<(<<candidate_start, start>>)>>
    ELSE LET candidate_end == TkIndex(t, start - 1)
         IN  IF candidate_start < candidate_end
             THEN <<(<<candidate_start, candidate_end>>)>>
             ELSE <<>>

\* One iteration of the walk which always keeps the new-line before the
\* sealed block
PinAppendKeepNewLine(t, candidate_start, index2, start) ==
    IF candidate_start = start THEN <<>>
    ELSE IF index2 < start THEN <<(<<candidate_start, index2>>)>>
    ELSE LET candidate_end == TkIndex(t, start - 1)
         IN  IF candidate_start < candidate_end
             THEN <<(<<candidate_start, candidate_end>>)>>
             ELSE <<>>

\* What one iteration of the walk appends to the result, when a sealed
\* block (start, end) follows the cursor
PinAppend(t, candidate_start, index2, start) ==
    IF candidate_start = start THEN <<>>
    ELSE IF index2 < start THEN <<(<<candidate_start, index2>>)>>
    ELSE IF candidate_start = 1 THEN <<(<<candidate_start, start>>)>>
    ELSE IF TkGetChar(t, TkIndex(t, candidate_start - 1)) = NL
    THEN <<(<<candidate_start, start>>)>>
    ELSE LET candidate_end == TkIndex(t, start - 1)
         IN  IF candidate_start < candidate_end
             THEN <<(<<candidate_start, candidate_end>>)>>
             ELSE <<>>

\* The cursor which stays at the start of the sealed block
PinNextStartAtBlock(t, nextrange) == nextrange[1]

\* The cursor after an iteration over the sealed block nextrange: past the
\* new-line which ends the block
PinNextStart(t, nextrange) == TkIndex(t, nextrange[2] + 1)

RECURSIVE PinWalk(_, _, _, _, _)
\* The while loop of pin_deletable_ranges: [result, raised]
PinWalk(t, rs, candidate_start, index2, result) ==
    IF ~(candidate_start < index2) THEN [result |-> result, raised |-> ""]
    ELSE
        LET nextrange == TagNextRange(rs, candidate_start)
        IN  IF nextrange = <<>>
            THEN PinWalk(t, rs, index2, index2, Append(result, <<candidate_start, index2>>))
            ELSE
                LET start == nextrange[1]
                    end == nextrange[2]
                    next_start == PinNextStart(t, nextrange)
                IN  IF TkGetChar(t, end) # NL \/ ~(candidate_start < next_start)
                    THEN [result |-> result, raised |-> "AssertionError"]
                    ELSE PinWalk(t, rs, next_start, index2,
                                 result \o PinAppend(t, candidate_start, index2, start))

RECURSIVE PinCursors(_, _, _, _)
\* The values of candidate_start at the tests of the while loop of
\* pin_deletable_ranges, the last one being the value with which the loop is
\* left (by its condition or by an assertion)
PinCursors(t, rs, candidate_start, index2) ==
    IF ~(candidate_start < index2) THEN <<candidate_start>>
    ELSE
        LET nextrange == TagNextRange(rs, candidate_start)
        IN  IF nextrange = <<>> THEN <<candidate_start, index2>>
            ELSE IF TkGetChar(t, nextrange[2]) # NL
                    \/ ~(candidate_start < PinNextStart(t, nextrange))
            THEN <<candidate_start>>
            ELSE <<candidate_start>>
                 \o PinCursors(t, rs, PinNextStart(t, nextrange), index2)

\* Whether pin_deletable_ranges comes to its while loop: the query has more
\* than one character and does not lie within one sealed block
PinWalks(t, rs, index1, index2) ==
    LET prevrange == TagPrevRange(rs, index1)
    IN  /\ index2 # TkIndex(t, index1 + 1)
        /\ ~(prevrange # <<>> /\ TkGetChar(t, prevrange[2]) # NL)
        /\ ~(prevrange # <<>> /\ index2 <= TkIndex(t, prevrange[2] + 1))

\* The body of pin_deletable_ranges: [result, raised]
PinBody(t, rs, index1, index2) ==
    LET prevrange == TagPrevRange(rs, index1)
    IN  IF index2 = TkIndex(t, index1 + 1)
        THEN LET d == is_deletable(t, rs, index1)
             IN  IF d = "True" THEN [result |-> <<(<<index1, index2>>)>>, raised |-> ""]
                 ELSE IF d = "False" THEN [result |-> <<>>, raised |-> ""]
                 ELSE [result |-> <<>>, raised |-> d]
        ELSE IF prevrange # <<>> /\ TkGetChar(t, prevrange[2]) # NL
        THEN [result |-> <<>>, raised |-> "AssertionError"]
        ELSE IF prevrange # <<>> /\ index2 <= TkIndex(t, prevrange[2] + 1)
        THEN [result |-> <<>>, raised |-> ""]
        ELSE PinWalk(t, rs, PinCandidateStart(t, rs, index1), index2, <<>>)

\* The postconditions (ensure) of pin_deletable_ranges
PinEnsure(index1, index2, result) ==
    /\ \A i \in 1..Len(result) : result[i][1] >= index1 /\ result[i][2] <= index2
    /\ \A i \in 1..(Len(result) - 1) : result[i][2] <= result[i + 1][1]
    /\ \A i \in 1..Len(result) : result[i][1] < result[i][2]

\* pin_deletable_ranges(text_widget, index1, index2) with its contracts:
\* [result, raised]
pin_deletable_ranges(t, rs, index1, index2) ==
    LET i1 == TkIndex(t, index1)
        i2 == TkIndex(t, index2)
        body == PinBody(t, rs, i1, i2)
    IN  IF ~(i1 < i2) \/ check_tags(t, rs) # None
        THEN [result |-> <<>>, raised |-> "ViolationError"]
        ELSE IF body.raised # "" THEN body
        ELSE IF ~PinEnsure(i1, i2, body.result)
        THEN [result |-> <<>>, raised |-> "ViolationError"]
        ELSE body

\* The marker tag of delete_the_deletables: one tag_add per deletable
MarkDeletables(t, ds) ==
    LET F[i \in 0..Len(ds)] ==
            IF i = 0 THEN <<>> ELSE TagAdd(t, F[i - 1], ds[i][1], ds[i][2])
    IN  F[Len(ds)]

RECURSIVE DeleteMarkedStale(_, _, _, _)
\* The loop of a deletion whose marks do not move with the text: the ranges
\* are deleted at the offsets they were pinned at
DeleteMarkedStale(t, rs, marked, fuel) ==
    LET tag_range == TagNextRange(marked, 1)
    IN  IF tag_range = <<>> THEN [text |-> t, sealed |-> rs, raised |-> ""]
        ELSE IF fuel = 0 THEN [text |-> t, sealed |-> rs, raised |-> "diverged"]
        ELSE DeleteMarkedStale(TkDeleteText(t, tag_range[1], tag_range[2]),
                               TkDeleteTags(t, rs, tag_range[1], tag_range[2]),
                               TagRemove(marked, tag_range[1], tag_range[2]),
                               fuel - 1)

RECURSIVE DeleteMarked(_, _, _, _)
\* The loop of delete_the_deletables: delete the first marked range until no
\* range is marked.  fuel bounds the iterations; raised is "diverged" when
\* the fuel runs out with a range still marked.
DeleteMarked(t, rs, marked, fuel) ==
    LET tag_range == TagNextRange(marked, 1)
    IN  IF tag_range = <<>> THEN [text |-> t, sealed |-> rs, raised |-> ""]
        ELSE IF fuel = 0 THEN [text |-> t, sealed |-> rs, raised |-> "diverged"]
        ELSE DeleteMarked(TkDeleteText(t, tag_range[1], tag_range[2]),
                          TkDeleteTags(t, rs, tag_range[1], tag_range[2]),
                          TkDeleteTags(t, marked, tag_range[1], tag_range[2]),
                          fuel - 1)

RECURSIVE DeleteRuns(_, _, _)
\* How often the body of the loop of delete_the_deletables runs until no
\* range is marked.  fuel bounds the count: a result above fuel says that a
\* range was still marked when the fuel ran out.
DeleteRuns(t, marked, fuel) ==
    LET tag_range == TagNextRange(marked, 1)
    IN  IF tag_range = <<>> THEN 0
        ELSE IF fuel = 0 THEN 1
        ELSE 1 + DeleteRuns(TkDeleteText(t, tag_range[1], tag_range[2]),
                            TkDeleteTags(t, marked, tag_range[1], tag_range[2]),
                            fuel - 1)

\* delete_the_deletables(text_widget, index1, index2, delete_func) with
\* delete_func = text_widget.delete: the buffer afterwards, [text, sealed, raised]
delete_the_deletables(t, rs, index1, index2) ==
    \* the preconditions (require) are those of pin_deletable_ranges, which
    \* raises the same ViolationError
    LET pinned == pin_deletable_ranges(t, rs, index1, index2)
    IN  IF pinned.raised # "" THEN [text |-> t, sealed |-> rs, raised |-> pinned.raised]
        ELSE DeleteMarked(t, rs, MarkDeletables(t, pinned.result), Len(t) + 1)

RECURSIVE NaiveWalk(_, _, _, _, _, _)
\* The loop of naive_delete: [text, sealed, raised]
NaiveWalk(t, rs, marked, index1, cursor, fuel) ==
    LET tag_range == TagNextRange(marked, 1)
    IN  IF tag_range = <<>> THEN [text |-> t, sealed |-> rs, raised |-> ""]
        ELSE IF tag_range[1] # index1 THEN [text |-> t, sealed |-> rs, raised |-> "AssertionError"]
        ELSE IF ~(cursor < tag_range[2]) THEN [text |-> t, sealed |-> rs, raised |-> ""]
        ELSE IF fuel = 0 THEN [text |-> t, sealed |-> rs, raised |-> "diverged"]
        ELSE LET d == is_deletable_wo_preconditions(t, rs, cursor)
             IN  IF d = "True"
                 THEN NaiveWalk(TkDeleteText(t, cursor, cursor + 1),
                                TkDeleteTags(t, rs, cursor, cursor + 1),
                                TkDeleteTags(t, marked, cursor, cursor + 1),
                                index1, cursor, fuel - 1)
                 ELSE IF d = "False"
                 THEN NaiveWalk(t, rs, marked, index1, TkIndex(t, cursor + 1), fuel - 1)
                 ELSE [text |-> t, sealed |-> rs, raised |-> d]

\* naive_delete(text_widget, index1, index2): the buffer afterwards
naive_delete(t, rs, index1, index2) ==
    NaiveWalk(t, rs, TagAdd(t, <<>>, index1, index2), TkIndex(t, index1),
              TkIndex(t, index1), 2 * Len(t) + 2)

---------------------------------------------------------------------------
(* thonny-seal: sealing the blocks of a file *)

\* What seal appends to `result` for the block i (0-based): the first line
\* with the hash, the content, the last line with the hash
SealedBlock(lines, block, i) ==
    LET truncated == truncated_md5(i, BlockContent(lines, block))
    IN  <<RStrip(block.first.prefix) \o <<" ">> \o truncated>>
            \o SubSeq(lines, block.first.lineno + 2, block.last.lineno)
            \o <<RStrip(block.last.prefix) \o <<" ">> \o truncated>>

\* The list `result` of seal when there is a block at least
SealResult(lines, blocks) ==
    LET n == Len(blocks)
        F[i \in 0..n] ==
            IF i = 0 THEN SubSeq(lines, 1, blocks[1].first.lineno)
            ELSE F[i - 1]
                    \o (IF i > 1
                        THEN SubSeq(lines, blocks[i - 1].last.lineno + 2, blocks[i].first.lineno)
                        ELSE <<>>)
                    \o SealedBlock(lines, blocks[i], i - 1)
    IN  F[n] \o SubSeq(lines, blocks[n].last.lineno + 2, Len(lines))

\* thonnycontrib.thonny_sealed.assert_lines(lines=result): the module
\* thonnycontrib.thonny_sealed defines no assert_lines (the class Lines took
\* its place), so that the call raises an AttributeError
assert_lines(lines) == [lines |-> None, error |-> None, raised |-> "AttributeError"]

\* seal which returns the empty list `result` for lines without blocks
seal_empty_result(lines) ==
    LET parsed == parse_blocks(extract_markers(lines))
    IN  IF parsed.raised # "" THEN [lines |-> None, error |-> None, raised |-> parsed.raised]
        ELSE IF parsed.error # None
        THEN [lines |-> None, error |-> parsed.error, raised |-> ""]
        ELSE IF Len(parsed.blocks[1]) = 0
        THEN [lines |-> Some(<<>>), error |-> None, raised |-> ""]
        ELSE assert_lines(SealResult(lines, parsed.blocks[1]))

\* seal which returns the lines without blocks from the second line on
seal_after_first_line(lines) ==
    LET parsed == parse_blocks(extract_markers(lines))
    IN  IF parsed.raised # "" THEN [lines |-> None, error |-> None, raised |-> parsed.raised]
        ELSE IF parsed.error # None
        THEN [lines |-> None, error |-> parsed.error, raised |-> ""]
        ELSE IF Len(parsed.blocks[1]) = 0
        THEN [lines |-> Some(SubSeq(lines, 2, Len(lines))), error |-> None, raised |-> ""]
        ELSE assert_lines(SealResult(lines, parsed.blocks[1]))

\* seal which returns the lines as they are when their blocks do not parse
seal_unparsed_lines(lines) ==
    LET parsed == parse_blocks(extract_markers(lines))
    IN  IF parsed.raised # "" THEN [lines |-> None, error |-> None, raised |-> parsed.raised]
        ELSE IF parsed.error # None
        THEN [lines |-> Some(lines), error |-> None, raised |-> ""]
        ELSE IF Len(parsed.blocks[1]) = 0
        THEN [lines |-> Some(lines), error |-> None, raised |-> ""]
        ELSE assert_lines(SealResult(lines, parsed.blocks[1]))

\* seal(lines): [lines (Optional), error (Optional), raised]
seal(lines) ==
    LET markers == extract_markers(lines)
        parsed == parse_blocks(markers)
    IN  IF parsed.raised # "" THEN [lines |-> None, error |-> None, raised |-> parsed.raised]
        ELSE IF parsed.error # None
        THEN [lines |-> None, error |-> parsed.error, raised |-> ""]
        ELSE IF Len(parsed.blocks[1]) = 0
        THEN [lines |-> Some(lines), error |-> None, raised |-> ""]
        ELSE assert_lines(SealResult(lines, parsed.blocks[1]))

---------------------------------------------------------------------------
(* The documents of the model *)

\* A sealed block without content, sealed as the block 0 of its document
Block0 ==
    <<<<"#", "s", "e", "a", "l", "e", "d", ":", "o", "n", " ", "8", "8", "2", "0", "9", "2", "9", "4">>,
      <<"#", "s", "e", "a", "l", "e", "d", ":", "o", "f", "f", " ", "8", "8", "2", "0", "9", "2", "9", "4">>>>

\* A sealed block with the content "b", sealed as the block 1 of its document
Block1 ==
    <<<<"#", "s", "e", "a", "l", "e", "d", " ", "o", "n", " ", "e", "2", "4", "3", "d", "9", "2", "5">>,
      <<"b">>,
      <<"#", "s", "e", "a", "l", "e", "d", " ", "o", "f", "f", " ", "e", "2", "4", "3", "d", "9", "2", "5">>>>

\* The items a document is made of: a line of text, an empty line, a sealed block
Items == {"text", "empty", "block0", "block1"}

ItemLines(item) ==
    IF item = "text" THEN <<(<<"a">>)>>
    ELSE IF item = "empty" THEN <<(<<>>)>>
    ELSE IF item = "block0" THEN Block0
    ELSE Block1

\* The documents: at most MaxItems items, one per line or group of lines,
\* with or without a new-line at the end of the file
DocumentsOf(max) ==
    LET seqs == UNION {[1..n -> Items] : n \in 0..max}
        Lines(q) ==
            LET F[i \in 0..Len(q)] == IF i = 0 THEN <<>> ELSE F[i - 1] \o ItemLines(q[i])
            IN  F[Len(q)]
    IN  {Join(Lines(q)) \o tail : q \in seqs, tail \in {<<>>, <<NL>>}}

Documents == DocumentsOf(MaxItems)

\* The documents given to set_content on a view in use
ReloadedDocuments == DocumentsOf(MaxReloadItems)

\* The content of a new text widget after text_widget.insert("1.0", content):
\* Tk keeps a final new-line after the content
WidgetText(content) == content \o <<NL>>

---------------------------------------------------------------------------
(* Editing a sealed buffer: the patched CodeViewText *)

\* The texts inserted in the model
InsertTexts == {<<>>, <<"x">>, <<NL>>, <<"x", NL>>, <<NL, "x">>}

\* A text widget which was not used yet: it holds its final new-line
NoBuffer == [text |-> <<NL>>, sealed |-> <<>>, raised |-> ""]

\* set_content on a new view: the widget holds a document and the ranges
\* set_tags gave it, none when set_tags reported errors (the warning "Broken
\* seals" is shown and the view is used all the same)
InitEdit ==
    /\ text \in {WidgetText(d) : d \in Documents}
    /\ sealed = set_tags(text).sealed
    /\ sealed0 = capture_sealed_blocks(text, sealed).result
    /\ nedits = 0
    /\ pc = "edit"
    /\ sel_first = 0
    /\ sel_last = 0
    /\ deletables = [result |-> <<>>, raised |-> ""]
    /\ fast = NoBuffer
    /\ naive = NoBuffer
    /\ arg = <<>>
    /\ ret = <<>>

Edited(t, rs) ==
    /\ text' = t
    /\ sealed' = rs
    /\ nedits' = IF t = text THEN nedits ELSE nedits + 1
    /\ UNCHANGED <<sealed0, pc, sel_first, sel_last, deletables, fast, naive, arg, ret>>

\* The edits followed after a set_content
EditBound == IF sealed = <<>> THEN MaxFreeEdits ELSE MaxEdits

\* set_content(content) on a view in use: the tag is deleted, the content
\* replaced and the tags set anew, as on a new view
set_content(content) ==
    /\ pc = "edit"
    /\ text' = WidgetText(content)
    /\ sealed' = set_tags(text').sealed
    /\ sealed0' = capture_sealed_blocks(text', sealed').result
    /\ nedits' = 0
    /\ UNCHANGED <<pc, sel_first, sel_last, deletables, fast, naive, arg, ret>>

\* intercept_insert(index, chars): insert when is_insertable, ring the bell otherwise
intercept_insert(index, chars) ==
    /\ pc = "edit"
    /\ nedits < EditBound
    /\ IF is_insertable(text, sealed, index, chars)
       THEN Edited(TkInsertText(text, index, chars), TkInsertTags(text, sealed, index, chars))
       ELSE UNCHANGED vars

\* direct_delete(index1): delete the character when is_deletable, ring the bell otherwise
direct_delete_char(index1) ==
    /\ pc = "edit"
    /\ nedits < EditBound
    /\ IF is_deletable(text, sealed, index1) = "True"
       THEN Edited(TkDeleteText(text, index1, index1 + 1),
                   TkDeleteTags(text, sealed, index1, index1 + 1))
       ELSE UNCHANGED vars

\* direct_delete(index1, index2): delete_the_deletables
direct_delete_range(index1, index2) ==
    /\ pc = "edit"
    /\ nedits < EditBound
    /\ LET after == delete_the_deletables(text, sealed, index1, index2)
       IN  Edited(after.text, after.sealed)

\* The indices taken as the ends of a query [index1, index2): every index
\* from "1.0" to "end" but those with an alphanumeric character on both sides
QueryIndices(t) ==
    {p \in 1..TkEnd(t) :
        p = 1 \/ ~(TkGetChar(t, p - 1) \in AlNum /\ TkGetChar(t, p) \in AlNum)}

NextEdit ==
    \/ \E content \in ReloadedDocuments : set_content(content)
    \/ \E index \in 1..TkEnd(text), chars \in InsertTexts : intercept_insert(index, chars)
    \/ \E index1 \in 1..TkEnd(text) : direct_delete_char(index1)
    \/ \E index1 \in QueryIndices(text), index2 \in QueryIndices(text) :
            index1 < index2 /\ direct_delete_range(index1, index2)

Init == InitEdit

Next == NextEdit

Spec == Init /\ [][Next]_vars

---------------------------------------------------------------------------
(* Deleting a selection: delete_the_deletables against naive_delete, as in *)
(* Test_delete_against_a_naive_implementation                              *)

\* A sealed document in the widget and a selection [sel_first, sel_last)
InitDelete ==
    /\ text \in {WidgetText(d) : d \in Documents}
    /\ set_tags(text).errors = <<>>
    /\ set_tags(text).raised = ""
    /\ sealed = set_tags(text).sealed
    /\ sealed0 = capture_sealed_blocks(text, sealed).result
    /\ nedits = 0
    /\ pc = "query"
    /\ sel_first \in QueryIndices(text)
    /\ sel_last \in QueryIndices(text)
    /\ sel_first < sel_last
    /\ deletables = [result |-> <<>>, raised |-> ""]
    /\ fast = NoBuffer
    /\ naive = NoBuffer
    /\ arg = <<>>
    /\ ret = <<>>

\* pin_deletable_ranges on the selection
Pin ==
    /\ pc = "query"
    /\ deletables' = pin_deletable_ranges(text, sealed, sel_first, sel_last)
    /\ pc' = "pinned"
    /\ UNCHANGED <<text, sealed, sealed0, nedits, sel_first, sel_last, fast, naive, arg, ret>>

\* delete_the_deletables on a widget with the document and the selection
DeleteTheDeletables ==
    /\ pc = "pinned"
    /\ fast' = delete_the_deletables(text, sealed, sel_first, sel_last)
    /\ pc' = "deleted"
    /\ UNCHANGED <<text, sealed, sealed0, nedits, sel_first, sel_last, deletables, naive,
                   arg, ret>>

\* naive_delete on another widget with the document and the selection
NaiveDelete ==
    /\ pc = "deleted"
    /\ naive' = naive_delete(text, sealed, sel_first, sel_last)
    /\ pc' = "done"
    /\ UNCHANGED <<text, sealed, sealed0, nedits, sel_first, sel_last, deletables, fast,
                   arg, ret>>

NextDelete == Pin \/ DeleteTheDeletables \/ NaiveDelete

SpecDelete == InitDelete /\ [][NextDelete]_vars

---------------------------------------------------------------------------
(* Asking whether a text may be inserted: is_insertable on every index of a *)
(* sealed document, as in TestTags.test_is_insertable                       *)

\* A sealed document in the widget, an index (sel_first) and a text (arg)
InitInsertable ==
    /\ text \in {WidgetText(d) : d \in Documents}
    /\ set_tags(text).errors = <<>>
    /\ set_tags(text).raised = ""
    /\ sealed = set_tags(text).sealed
    /\ sealed0 = capture_sealed_blocks(text, sealed).result
    /\ nedits = 0
    /\ pc = "ask"
    /\ sel_first \in 1..TkEnd(text)
    /\ sel_last = 0
    /\ deletables = [result |-> <<>>, raised |-> ""]
    /\ fast = NoBuffer
    /\ naive = NoBuffer
    /\ arg \in InsertTexts
    /\ ret = <<>>

\* is_insertable(text_widget, index, chars)
IsInsertable ==
    /\ pc = "ask"
    /\ ret' = is_insertable(text, sealed, sel_first, arg)
    /\ pc' = "answered"
    /\ UNCHANGED <<text, sealed, sealed0, nedits, sel_first, sel_last, deletables, fast,
                   naive, arg>>

NextInsertable == IsInsertable

SpecInsertable == InitInsertable /\ [][NextInsertable]_vars

---------------------------------------------------------------------------
(* Properties of the guarded edits *)

\* C1: after any sequence of guard-approved inserts, single-character
\* deletes and delete_the_deletables calls, capture_sealed_blocks returns the
\* texts captured right after set_tags: same number of ranges, same
\* characters.
C1_SealedBlocksUnchanged ==
    capture_sealed_blocks(text, sealed) = [result |-> sealed0, raised |-> ""]

\* C2: check_tags reports no error in any state reached from a successful
\* set_tags by guard-approved edits.
C2_CheckTagsHolds == check_tags(text, sealed) = None

\* The cases in which the claim C6 says that a position is not deletable:
\* (a) inside a tagged range, (b) the start of a tagged range, (c) the
\* new-line right before a tagged range, unless it is the first character of
\* the buffer or follows a new-line
InsideSealed(rs, p) == \E i \in 1..Len(rs) : rs[i][1] <= p /\ p < rs[i][2]

AtSealedStart(rs, p) == \E i \in 1..Len(rs) : p = rs[i][1]

SoleNewLineBefore(t, rs, p) ==
    /\ \E i \in 1..Len(rs) : p + 1 = rs[i][1]
    /\ TkGetChar(t, p) = NL
    /\ p # 1
    /\ TkGetChar(t, p - 1) # NL

\* (d) the end of a tagged range: the new-line that ends the last sealing line
AtSealedEnd(rs, p) == \E i \in 1..Len(rs) : p = rs[i][2]

\* C6 as claimed: is_deletable(position) is true exactly when none of (a),
\* (b), (c) holds.
C6_DeletableIffNotABC ==
    \A p \in 1..TkEnd(text) :
        (is_deletable(text, sealed, p) = "True")
            <=> ~(InsideSealed(sealed, p) \/ AtSealedStart(sealed, p)
                    \/ SoleNewLineBefore(text, sealed, p))

\* C6 amended: is_deletable(position) is true exactly when none of (a), (b),
\* (c), (d) holds, (d) being that the position is the end of a tagged range.
C6_DeletableIffNotABCD ==
    \A p \in 1..TkEnd(text) :
        (is_deletable(text, sealed, p) = "True")
            <=> ~(InsideSealed(sealed, p) \/ AtSealedStart(sealed, p)
                    \/ SoleNewLineBefore(text, sealed, p) \/ AtSealedEnd(sealed, p))

\* After an edit: the new-line at the end of a tagged range is followed by
\* free text, so that only (d) forbids to delete it
C6_Witness ==
    /\ nedits >= 1
    /\ \E i \in 1..Len(sealed) :
        LET p == sealed[i][2]
        IN  /\ TkGetChar(text, p) = NL
            /\ TkGetChar(text, p + 1) \in {"a", "x"}
            /\ ~SoleNewLineBefore(text, sealed, p)
            /\ is_deletable(text, sealed, p) = "False"

---------------------------------------------------------------------------
(* Properties of pin_deletable_ranges and delete_the_deletables *)

\* C3: delete_the_deletables ends in the same text and the same tagged
\* ranges as naive_delete, and neither raises.
C3_SameAsNaiveDelete ==
    pc = "done" =>
        /\ fast.raised = ""
        /\ naive.raised = ""
        /\ fast.text = naive.text
        /\ fast.sealed = naive.sealed

\* A selection over a sealed block: two ranges were pinned and deleted
C3_Witness ==
    /\ pc = "done"
    /\ Len(deletables.result) >= 2
    /\ Len(sealed) >= 1
    /\ Len(fast.text) < Len(text)

\* C4: pin_deletable_ranges returns, and every range it returns lies within
\* the query interval: index1 <= start and end <= index2.
C4_WithinQuery ==
    pc # "query" =>
        /\ deletables.raised = ""
        /\ \A i \in 1..Len(deletables.result) :
            sel_first <= deletables.result[i][1] /\ deletables.result[i][2] <= sel_last

\* The selection starts and ends inside sealed blocks: the range returned
\* starts after index1 and ends before index2
C4_Witness ==
    /\ pc = "pinned"
    /\ Len(deletables.result) = 1
    /\ sel_first < deletables.result[1][1]
    /\ deletables.result[1][2] < sel_last

\* C5: pin_deletable_ranges returns, and the ranges it returns are non-empty
\* and in increasing order: start < end, and the end of a range is at or
\* before the start of the next one.
C5_OrderedNonEmpty ==
    pc # "query" =>
        /\ deletables.raised = ""
        /\ \A i \in 1..Len(deletables.result) :
            deletables.result[i][1] < deletables.result[i][2]
        /\ \A i \in 1..(Len(deletables.result) - 1) :
            deletables.result[i][2] <= deletables.result[i + 1][1]

\* Two ranges were returned, before and after a sealed block, the first of
\* them shortened to keep the new-line before the block
C5_Witness ==
    /\ pc = "pinned"
    /\ Len(deletables.result) = 2
    /\ deletables.result[1][2] + 1 < deletables.result[2][1]
    /\ \E i \in 1..Len(sealed) : deletables.result[1][2] + 1 = sealed[i][1]

\* C7: the new-line at the end of a tagged range is never removed:
\* is_deletable is false there and no range returned by
\* pin_deletable_ranges holds it.
C7_EndNewLineKept ==
    pc # "query" =>
        \A i \in 1..Len(sealed) :
            /\ is_deletable(text, sealed, sealed[i][2]) = "False"
            /\ \A k \in 1..Len(deletables.result) :
                ~(deletables.result[k][1] <= sealed[i][2]
                    /\ sealed[i][2] < deletables.result[k][2])

\* The selection starts at the new-line that ends a sealed block and goes
\* on: the range returned starts right after that new-line
C7_Witness ==
    /\ pc = "pinned"
    /\ \E i \in 1..Len(sealed) :
        /\ sel_first = sealed[i][2]
        /\ Len(deletables.result) >= 1
        /\ deletables.result[1][1] = sealed[i][2] + 1

\* C8: a query interval within one tagged range and its trailing new-line
\* (start <= index1 and index2 <= end + 1) yields no deletable range.
C8_NothingInsideBlock ==
    (pc # "query"
        /\ \E i \in 1..Len(sealed) : sealed[i][1] <= sel_first /\ sel_last <= sealed[i][2] + 1)
    => deletables = [result |-> <<>>, raised |-> ""]

\* The selection is the whole of the second sealed block with its trailing
\* new-line, starting exactly at the start of the range
C8_Witness ==
    /\ pc = "pinned"
    /\ Len(sealed) = 2
    /\ sel_first = sealed[2][1]
    /\ sel_last = sealed[2][2] + 1
    /\ deletables.result = <<>>

\* The orders of application the claims C9 and C10 compare with
\* delete_the_deletables.  By literal offsets: each range is deleted at the
\* offsets computed by pin_deletable_ranges, whatever was deleted before.
DeleteLiteral(b, r) ==
    [text |-> TkDeleteText(b.text, r[1], r[2]),
     sealed |-> TkDeleteTags(b.text, b.sealed, r[1], r[2])]

LeftToRightLiteral(t, rs, ds) ==
    LET F[i \in 0..Len(ds)] ==
            IF i = 0 THEN [text |-> t, sealed |-> rs] ELSE DeleteLiteral(F[i - 1], ds[i])
    IN  F[Len(ds)]

RightToLeftLiteral(t, rs, ds) ==
    LET F[i \in 0..Len(ds)] ==
            IF i = 0 THEN [text |-> t, sealed |-> rs]
            ELSE DeleteLiteral(F[i - 1], ds[Len(ds) + 1 - i])
    IN  F[Len(ds)]

RECURSIVE RightToLeftMarked(_, _, _)
\* Through markers, right to left: the last marked range is deleted until
\* no range is marked
RightToLeftMarked(t, rs, marked) ==
    IF marked = <<>> THEN [text |-> t, sealed |-> rs]
    ELSE LET r == marked[Len(marked)]
         IN  RightToLeftMarked(TkDeleteText(t, r[1], r[2]),
                               TkDeleteTags(t, rs, r[1], r[2]),
                               TkDeleteTags(t, marked, r[1], r[2]))

Buffer(b) == [text |-> b.text, sealed |-> b.sealed]

\* C9 as claimed: applying the ranges left to right by their literal
\* offsets gives the same buffer as applying them right to left through
\* markers that shift with the text.
C9_LiteralForwardSameAsMarkedBackward ==
    pc # "query" =>
        LeftToRightLiteral(text, sealed, deletables.result)
            = RightToLeftMarked(text, sealed, MarkDeletables(text, deletables.result))

\* C9 amended: applying the ranges left to right through markers that shift
\* with the text, as delete_the_deletables does, gives the same buffer as
\* applying them right to left through such markers.
C9_MarkedForwardSameAsMarkedBackward ==
    pc \in {"deleted", "done"} =>
        /\ fast.raised = ""
        /\ Buffer(fast)
            = RightToLeftMarked(text, sealed, MarkDeletables(text, deletables.result))

\* Two ranges or more were returned and deleted, and the literal offsets of
\* the later ones are stale after the first deletion
C9_Witness ==
    /\ pc = "deleted"
    /\ Len(deletables.result) >= 2
    /\ LeftToRightLiteral(text, sealed, deletables.result) # Buffer(fast)

\* C10: applying the ranges back to front by their literal offsets gives
\* the same text and the same tagged ranges as delete_the_deletables.
C10_LiteralBackwardSameAsDelete ==
    pc \in {"deleted", "done"} =>
        /\ fast.raised = ""
        /\ Buffer(fast) = RightToLeftLiteral(text, sealed, deletables.result)

\* Two ranges or more were deleted, the last of them up to the end of the
\* buffer
C10_Witness ==
    /\ pc = "deleted"
    /\ Len(deletables.result) >= 2
    /\ sel_last = TkEnd(text)
    /\ Len(fast.text) < Len(text)

---------------------------------------------------------------------------
(* Sealing a file: seal on the lines of a file, as in test_thonny_seal *)

\* The lines of the files sealed in the model: text, markers without hash,
\* indented markers, markers with a hash
SealLines ==
    {<<"a">>, <<"b">>,
     <<"#", "s", "e", "a", "l", "e", "d", ":", "o", "n">>,
     <<" ", " ", "#", " ", "s", "e", "a", "l", "e", "d", " ", "o", "n">>,
     Block0[1],
     <<"#", "s", "e", "a", "l", "e", "d", ":", "o", "f", "f">>,
     <<" ", " ", "#", " ", "s", "e", "a", "l", "e", "d", " ", "o", "f", "f">>,
     Block0[2]}

\* The files: at most MaxLines lines
SealInputs == UNION {[1..n -> SealLines] : n \in 0..MaxLines}

\* content.splitlines() of a file (arg)
InitSeal ==
    /\ text = WidgetText(<<>>)
    /\ sealed = <<>>
    /\ sealed0 = <<>>
    /\ nedits = 0
    /\ pc = "seal"
    /\ sel_first = 0
    /\ sel_last = 0
    /\ deletables = [result |-> <<>>, raised |-> ""]
    /\ fast = NoBuffer
    /\ naive = NoBuffer
    /\ arg \in SealInputs
    /\ ret = <<>>

\* sealed_lines, error = seal(lines=lines)
Seal ==
    /\ pc = "seal"
    /\ ret' = seal(arg)
    /\ pc' = "sealed"
    /\ UNCHANGED <<text, sealed, sealed0, nedits, sel_first, sel_last, deletables, fast,
                   naive, arg>>

NextSeal == Seal

SpecSeal == InitSeal /\ [][NextSeal]_vars

---------------------------------------------------------------------------
(* Running thonny-seal: run on an input path, as in Test_run *)

\* What run leaves: the exit code (Optional), what it wrote to stdout (the
\* characters) and to stderr (the messages), the content of the input file,
\* whether the temporary file is still there, the exception raised
RunOutcome(code, stdout, stderr, file, tmp, raised) ==
    [code |-> code, stdout |-> stdout, stderr |-> stderr, file |-> file, tmp |-> tmp,
     raised |-> raised]

\* run from the sealed content on: written into the file through a
\* temporary file with --write, to stdout with a new-line at the end otherwise
RunDeliver(content, write, sealed_content) ==
    IF write
    THEN RunOutcome(Some(0), <<>>, <<>>, sealed_content, FALSE, "")
    ELSE RunOutcome(Some(0),
                    sealed_content \o (IF EndsWithNL(sealed_content) THEN <<>> ELSE <<NL>>),
                    <<>>, content, FALSE, "")

\* run from the result of seal on
RunSealed(content, write, sealing) ==
    IF sealing.raised # ""
    THEN RunOutcome(None, <<>>, <<>>, content, FALSE, sealing.raised)
    ELSE IF sealing.error # None
    THEN RunOutcome(Some(1), <<>>, <<"There was an error while sealing the file">>,
                    content, FALSE, "")
    ELSE RunDeliver(content, write,
                    Join(sealing.lines[1]) \o (IF EndsWithNL(content) THEN <<NL>> ELSE <<>>))

\* run from the lines of the file on
RunLines(content, write, lines) ==
    IF lines.raised # ""
    THEN RunOutcome(None, <<>>, <<>>, content, FALSE, lines.raised)
    ELSE RunSealed(content, write, seal(lines.lines[1]))

\* run(args, stdout, stderr) on the input path of the given kind ("missing",
\* "directory", "file") and content, with or without --write
run(kind, content, write) ==
    IF kind = "missing"
    THEN RunOutcome(Some(1), <<>>, <<"The input does not exist">>, content, FALSE, "")
    ELSE IF kind # "file"
    THEN RunOutcome(Some(1), <<>>, <<"The input is not a file">>, content, FALSE, "")
    ELSE RunLines(content, write, assert_lines(SplitLines(content)))

\* What the input files are made of: a line of text, a sealed block, a
\* marker line
RunItems == {"text", "block0", "block1", "on", "off"}

RunItemLines(item) ==
    IF item = "on" THEN <<SubSeq(Block0[1], 1, 10)>>
    ELSE IF item = "off" THEN <<SubSeq(Block0[2], 1, 11)>>
    ELSE IF item = "text" THEN <<(<<"a">>)>>
    ELSE IF item = "block0" THEN Block0
    ELSE Block1

\* The contents of the input files: at most MaxItems items, with or without
\* a new-line at the end
RunContents ==
    LET seqs == UNION {[1..n -> RunItems] : n \in 0..MaxItems}
        Lines(q) ==
            LET F[i \in 0..Len(q)] == IF i = 0 THEN <<>> ELSE F[i - 1] \o RunItemLines(q[i])
            IN  F[Len(q)]
    IN  {Join(Lines(q)) \o tail : q \in seqs, tail \in {<<>>, <<NL>>}}

\* The input paths: no file, a directory, a file; with or without --write
RunInputs ==
    {[kind |-> kind, content |-> <<>>, write |-> write] :
        kind \in {"missing", "directory"}, write \in BOOLEAN}
    \cup {[kind |-> "file", content |-> content, write |-> write] :
            content \in RunContents, write \in BOOLEAN}

\* args = Args(input_path=pth, write=...) (arg)
InitRun ==
    /\ text = WidgetText(<<>>)
    /\ sealed = <<>>
    /\ sealed0 = <<>>
    /\ nedits = 0
    /\ pc = "run"
    /\ sel_first = 0
    /\ sel_last = 0
    /\ deletables = [result |-> <<>>, raised |-> ""]
    /\ fast = NoBuffer
    /\ naive = NoBuffer
    /\ arg \in RunInputs
    /\ ret = <<>>

\* exit_code = run(args=args, stdout=stdout, stderr=stderr)
Run ==
    /\ pc = "run"
    /\ ret' = run(arg.kind, arg.content, arg.write)
    /\ pc' = "exited"
    /\ UNCHANGED <<text, sealed, sealed0, nedits, sel_first, sel_last, deletables, fast,
                   naive, arg>>

NextRun == Run

SpecRun == InitRun /\ [][NextRun]_vars

---------------------------------------------------------------------------
(* Parsing markers: parse_blocks on a list of markers, as extract_markers *)
(* builds them                                                            *)

\* The suffixes of the markers.  extract_markers strips what follows the
\* keyword on the line, and the suffix group of COMMENT_FIRST_RE and
\* COMMENT_LAST_RE always takes part in a match: the suffix of a marker is a
\* text, the empty one (absent: nothing follows the keyword) or a hash.
MarkerSuffixes == {Some(<<>>), Some(<<"x">>), Some(<<"y">>)}

\* The markers of the model: First or Last, at the line lineno, with a suffix
MarkerOf(kind, lineno, suffix) ==
    [kind |-> kind,
     lineno |-> lineno,
     prefix |-> IF kind = "First" THEN SubSeq(Block0[1], 1, 10) ELSE SubSeq(Block0[2], 1, 11),
     suffix |-> suffix]

\* What stands on a line: no marker, or a marker of a kind with a suffix
NoMarker == [kind |-> "", suffix |-> None]

LineChoices == {NoMarker} \cup [kind : {"First", "Last"}, suffix : MarkerSuffixes]

\* The markers of the lines 0..MaxMarkers, in increasing line order
MarkersOf(choice) ==
    LET F[i \in 0..(MaxMarkers + 1)] ==
            IF i = 0 THEN <<>>
            ELSE IF choice[i - 1] = NoMarker THEN F[i - 1]
            ELSE Append(F[i - 1], MarkerOf(choice[i - 1].kind, i - 1, choice[i - 1].suffix))
    IN  F[MaxMarkers + 1]

\* A list of at most MaxMarkers markers (ret.markers)
InitParse ==
    /\ text = WidgetText(<<>>)
    /\ sealed = <<>>
    /\ sealed0 = <<>>
    /\ nedits = 0
    /\ pc = "markers"
    /\ sel_first = 0
    /\ sel_last = 0
    /\ deletables = [result |-> <<>>, raised |-> ""]
    /\ fast = NoBuffer
    /\ naive = NoBuffer
    /\ arg = <<>>
    /\ \E choice \in [0..MaxMarkers -> LineChoices] :
            /\ \E i \in 0..MaxMarkers : choice[i] = NoMarker
            /\ ret = [markers |-> MarkersOf(choice)]

\* blocks, error = parse_blocks(markers=markers)
ParseBlocks ==
    /\ pc = "markers"
    /\ ret' = [markers |-> ret.markers, parsed |-> parse_blocks(ret.markers)]
    /\ pc' = "parsed"
    /\ UNCHANGED <<text, sealed, sealed0, nedits, sel_first, sel_last, deletables, fast,
                   naive, arg>>

NextParse == ParseBlocks

SpecParse == InitParse /\ [][NextParse]_vars

---------------------------------------------------------------------------
(* Verifying a file: extract_markers, parse_blocks and verify_blocks on the *)
(* lines of a file, as set_tags does                                        *)

\* What the files are made of: a line of text, a sealed block, a marker line
FileItems == {"text", "block0", "block1", "on", "off"}

FileItemLines(item) ==
    IF item = "on" THEN <<Block0[1]>>
    ELSE IF item = "off" THEN <<Block0[2]>>
    ELSE ItemLines(item)

\* The files: the lines of at most MaxItems items
FileLines ==
    LET seqs == UNION {[1..n -> FileItems] : n \in 0..MaxItems}
        Lines(q) ==
            LET F[i \in 0..Len(q)] == IF i = 0 THEN <<>> ELSE F[i - 1] \o FileItemLines(q[i])
            IN  F[Len(q)]
    IN  {Lines(q) : q \in seqs}

\* The lines of a file (arg)
InitVerify ==
    /\ text = WidgetText(<<>>)
    /\ sealed = <<>>
    /\ sealed0 = <<>>
    /\ nedits = 0
    /\ pc = "lines"
    /\ sel_first = 0
    /\ sel_last = 0
    /\ deletables = [result |-> <<>>, raised |-> ""]
    /\ fast = NoBuffer
    /\ naive = NoBuffer
    /\ arg \in FileLines
    /\ ret = <<>>

\* markers = extract_markers(lines=lines)
ExtractMarkers ==
    /\ pc = "lines"
    /\ ret' = [markers |-> extract_markers(arg)]
    /\ pc' = "markers"
    /\ UNCHANGED <<text, sealed, sealed0, nedits, sel_first, sel_last, deletables, fast,
                   naive, arg>>

\* ok_blocks, errors = verify_blocks(lines=lines, blocks=blocks), when
\* parse_blocks returned no error
VerifyBlocks ==
    /\ pc = "parsed"
    /\ ret.parsed.blocks # None
    /\ ret' = [markers |-> ret.markers, parsed |-> ret.parsed,
               verified |-> verify_blocks(arg, ret.parsed.blocks[1])]
    /\ pc' = "verified"
    /\ UNCHANGED <<text, sealed, sealed0, nedits, sel_first, sel_last, deletables, fast,
                   naive, arg>>

NextVerify == ExtractMarkers \/ ParseBlocks \/ VerifyBlocks

SpecVerify == InitVerify /\ [][NextVerify]_vars

---------------------------------------------------------------------------
(* Setting the tags: set_tags on a new text widget, as in *)
(* set_up_text_widget_with_tags                           *)

\* What the contents are made of: the items of the documents, a line
\* with a form feed, a character at which str.splitlines() breaks a line and
\* the text widget does not, and a start marker without its end marker
ContentItems == Items \cup {"formfeed", "on"}

ContentItemLines(item) ==
    IF item = "formfeed" THEN <<(<<"\f">>)>>
    ELSE IF item = "on" THEN <<Block0[1]>>
    ELSE ItemLines(item)

\* The contents: at most MaxItems items, with or without a new-line at the end
Contents ==
    LET seqs == UNION {[1..n -> ContentItems] : n \in 0..MaxItems}
        Lines(q) ==
            LET F[i \in 0..Len(q)] ==
                    IF i = 0 THEN <<>> ELSE F[i - 1] \o ContentItemLines(q[i])
            IN  F[Len(q)]
    IN  {Join(Lines(q)) \o tail : q \in seqs, tail \in {<<>>, <<NL>>}}

\* text_widget = tkinter.Text(); text_widget.insert('1.0', content)
InitSetTags ==
    /\ text \in {WidgetText(c) : c \in Contents}
    /\ sealed = <<>>
    /\ sealed0 = <<>>
    /\ nedits = 0
    /\ pc = "content"
    /\ sel_first = 0
    /\ sel_last = 0
    /\ deletables = [result |-> <<>>, raised |-> ""]
    /\ fast = NoBuffer
    /\ naive = NoBuffer
    /\ arg = <<>>
    /\ ret = <<>>

\* errors = set_tags(text_widget=text_widget), on a widget without tags
SetTags ==
    /\ pc = "content"
    /\ sealed = <<>>
    /\ ret' = set_tags(text)
    /\ sealed' = set_tags(text).sealed
    /\ pc' = "tagged"
    /\ UNCHANGED <<text, sealed0, nedits, sel_first, sel_last, deletables, fast, naive, arg>>

NextSetTags == SetTags

SpecSetTags == InitSetTags /\ [][NextSetTags]_vars

---------------------------------------------------------------------------
(* Checking the tags: check_tags on a text widget with any ranges of the *)
(* sealing tag                                                           *)

\* The lines of the buffers given to check_tags
TagLines ==
    {<<"a">>,
     <<"#", "s", "e", "a", "l", "e", "d", " ", "o", "n">>,
     <<"#", "s", "e", "a", "l", "e", "d", " ", "o", "f", "f">>}

\* The buffers: at most MaxTagLines lines
TagBuffers ==
    {WidgetText(Join(ls)) : ls \in UNION {[1..n -> TagLines] : n \in 1..MaxTagLines}}

\* The indices given to tag_add: around the ends of the lines
TagIndices(t) ==
    {p \in 1..TkEnd(t) :
        \/ p = 1
        \/ TkGetChar(t, p) = NL
        \/ TkGetChar(t, p - 1) = NL
        \/ TkGetChar(t, p - 2) = NL
        \/ p = 2}

\* A text widget without tags
InitCheckTags ==
    /\ text \in TagBuffers
    /\ sealed = <<>>
    /\ sealed0 = <<>>
    /\ nedits = 0
    /\ pc = "tags"
    /\ sel_first = 0
    /\ sel_last = 0
    /\ deletables = [result |-> <<>>, raised |-> ""]
    /\ fast = NoBuffer
    /\ naive = NoBuffer
    /\ arg = <<>>
    /\ ret = <<>>

\* text_widget.tag_add(TAG_NAME, index1, index2), the ranges added from the
\* start of the buffer to its end, at most as many as blocks fit the lines
TagAddRange(index1, index2) ==
    /\ pc = "tags"
    /\ 2 * (nedits + 1) <= MaxTagLines
    /\ index1 < index2
    /\ sealed # <<>> => index1 >= sealed[Len(sealed)][2]
    /\ sealed' = TagAdd(text, sealed, index1, index2)
    /\ nedits' = nedits + 1
    /\ UNCHANGED <<text, sealed0, pc, sel_first, sel_last, deletables, fast, naive, arg, ret>>

\* check_tags(text_widget)
CheckTags ==
    /\ pc = "tags"
    /\ ret' = check_tags(text, sealed)
    /\ pc' = "checked"
    /\ UNCHANGED <<text, sealed, sealed0, nedits, sel_first, sel_last, deletables, fast,
                   naive, arg>>

NextCheckTags ==
    \/ \E index1 \in TagIndices(text), index2 \in TagIndices(text) :
            TagAddRange(index1, index2)
    \/ CheckTags

SpecCheckTags == InitCheckTags /\ [][NextCheckTags]_vars

---------------------------------------------------------------------------
(* Properties of is_insertable *)

StrictlyInsideSealed(rs, p) == \E i \in 1..Len(rs) : rs[i][1] < p /\ p < rs[i][2]

\* C11: for a non-empty text at the end of a tagged range, is_insertable
\* is true exactly when the text begins with a new-line.
C11_AtEndIffStartsWithNewLine ==
    (pc = "answered" /\ arg # <<>> /\ AtSealedEnd(sealed, sel_first))
        => (ret = StartsWithNL(arg))

\* A new-line followed by a character is let in at the end of a sealed block
C11_Witness ==
    /\ pc = "answered"
    /\ AtSealedEnd(sealed, sel_first)
    /\ arg = <<NL, "x">>
    /\ ret = TRUE

\* C12: for a non-empty text at the start of a tagged range, also one at
\* the start of the buffer or right after the new-line of the previous
\* range, is_insertable is true exactly when the text ends with a new-line.
C12_AtStartIffEndsWithNewLine ==
    (pc = "answered" /\ arg # <<>> /\ AtSealedStart(sealed, sel_first))
        => (ret = EndsWithNL(arg))

\* A character followed by a new-line is let in at the start of a sealed
\* block which follows another one directly
C12_Witness ==
    /\ pc = "answered"
    /\ Len(sealed) >= 2
    /\ sel_first = sealed[2][1]
    /\ sel_first = sealed[1][2] + 1
    /\ arg = <<"x", NL>>
    /\ ret = TRUE

\* C13: for a non-empty text strictly inside a tagged range, is_insertable
\* is false.
C13_InsideNeverInsertable ==
    (pc = "answered" /\ arg # <<>> /\ StrictlyInsideSealed(sealed, sel_first))
        => (ret = FALSE)

\* A new-line is refused inside a sealed block
C13_Witness ==
    /\ pc = "answered"
    /\ StrictlyInsideSealed(sealed, sel_first)
    /\ arg = <<NL>>
    /\ ret = FALSE

\* C14: at a position which is neither inside a tagged range nor at the
\* start or the end of one, is_insertable is true for every text.
C14_ElsewhereInsertable ==
    (pc = "answered"
        /\ ~InsideSealed(sealed, sel_first)
        /\ ~AtSealedStart(sealed, sel_first)
        /\ ~AtSealedEnd(sealed, sel_first))
    => (ret = TRUE)

\* A character is let in between two sealed blocks, off their boundaries
C14_Witness ==
    /\ pc = "answered"
    /\ Len(sealed) = 2
    /\ sealed[1][2] < sel_first
    /\ sel_first < sealed[2][1]
    /\ arg = <<"x">>
    /\ ret = TRUE

\* C15: is_insertable is true for the empty text at every position, also
\* strictly inside a tagged range.
C15_EmptyTextInsertable == (pc = "answered" /\ arg = <<>>) => (ret = TRUE)

\* The empty text is let in inside a sealed block
C15_Witness ==
    /\ pc = "answered"
    /\ StrictlyInsideSealed(sealed, sel_first)
    /\ arg = <<>>
    /\ ret = TRUE

---------------------------------------------------------------------------
(* Properties of seal *)

\* The blocks parsed from the lines, and the error if any
Parsed(lines) == parse_blocks(extract_markers(lines))

\* The 1-based numbers of the lines which start or end a block
MarkerLineNumbers(blocks) ==
    {blocks[k].first.lineno + 1 : k \in 1..Len(blocks)}
        \cup {blocks[k].last.lineno + 1 : k \in 1..Len(blocks)}

\* The hash which follows the keyword on a marker line
HashOnLine(line) == extract_markers(<<line>>)[1].suffix

\* C16: seal returns either the sealed lines or an error, never both and
\* never neither; it returns the error exactly when parse_blocks returns
\* one, and it returns that very error.
C16_LinesOrError ==
    pc = "sealed" =>
        /\ ret.raised = ""
        /\ (ret.lines = None) # (ret.error = None)
        /\ (ret.error # None) <=> (Parsed(arg).error # None)
        /\ Parsed(arg).error # None => ret.error = Parsed(arg).error

\* seal succeeded: it raised nothing and returned the sealed lines
SealSucceeded == pc = "sealed" /\ ret.raised = "" /\ ret.lines # None

\* C17: when seal succeeds, its output has as many lines as the input and
\* the same line wherever the input line neither starts nor ends a block.
C17_OnlyMarkerLinesChange ==
    SealSucceeded =>
        /\ Len(ret.lines[1]) = Len(arg)
        /\ \A i \in 1..Len(arg) :
            i \notin MarkerLineNumbers(Parsed(arg).blocks[1]) => ret.lines[1][i] = arg[i]

\* seal succeeded on as many lines as the model allows, not all the same
C17_Witness ==
    /\ SealSucceeded
    /\ Len(arg) = MaxLines
    /\ \E i, j \in 1..Len(arg) : arg[i] # arg[j]

\* C18: when seal succeeds, sealing its output succeeds too and returns the
\* same lines.
C18_SealIdempotent ==
    SealSucceeded =>
        /\ seal(ret.lines[1]).raised = ""
        /\ seal(ret.lines[1]).error = None
        /\ seal(ret.lines[1]).lines = ret.lines

\* seal succeeded on two lines at least, and so it does on its output
C18_Witness ==
    /\ SealSucceeded
    /\ Len(arg) >= 2
    /\ seal(ret.lines[1]).lines # None

\* C19: when seal succeeds, extract_markers, parse_blocks and verify_blocks
\* on its output give no error and all the blocks of the output as ok
\* blocks, as many as the blocks of the input.
C19_SealedLinesVerify ==
    SealSucceeded =>
        /\ Parsed(ret.lines[1]).raised = ""
        /\ Parsed(ret.lines[1]).error = None
        /\ LET blocks == Parsed(ret.lines[1]).blocks[1]
               verified == verify_blocks(ret.lines[1], blocks)
           IN  /\ verified.errors = <<>>
               /\ verified.ok_blocks = blocks
               /\ Len(blocks) = Len(Parsed(arg).blocks[1])

\* seal succeeded on some lines, and its output was parsed and verified
C19_Witness ==
    /\ SealSucceeded
    /\ Len(arg) >= 1
    /\ Parsed(ret.lines[1]).blocks # None
    /\ verify_blocks(ret.lines[1], Parsed(ret.lines[1]).blocks[1]).errors = <<>>

\* C20: seal succeeds on the lines whose blocks parse, and the hash it
\* writes on the two marker lines of the k-th block (0-based) is the one of
\* k and the content of the block, whatever stands outside the block, before
\* the keyword or after it in the input.
C20_HashOfOrdinalAndContent ==
    (pc = "sealed" /\ Parsed(arg).error = None) =>
        /\ ret.lines # None
        /\ LET blocks == Parsed(arg).blocks[1]
           IN  \A k \in 1..Len(blocks) :
                LET hash == Some(truncated_md5(k - 1, BlockContent(arg, blocks[k])))
                IN  /\ HashOnLine(ret.lines[1][blocks[k].first.lineno + 1]) = hash
                    /\ HashOnLine(ret.lines[1][blocks[k].last.lineno + 1]) = hash

---------------------------------------------------------------------------
(* Properties of verify_blocks, parse_blocks and extract_markers *)

\* The verify_blocks error about the block: the hash of the sealed block
\* starting at its line is invalid
HashError(block) == ErrorMessage("invalid hash", block.first.lineno + 1, 0)

\* C21: when the same sealed block (the same body, the same hash on both
\* markers) stands at two places among the blocks of a file, verify_blocks
\* reports a hash error for at least one of the two.
C21_CopyPastedBlockRejected ==
    pc = "verified" =>
        LET blocks == ret.parsed.blocks[1]
            errors == ret.verified.errors
        IN  \A j, k \in 1..Len(blocks) :
                (/\ j < k
                 /\ BlockContent(arg, blocks[j]) = BlockContent(arg, blocks[k])
                 /\ blocks[j].first.suffix = blocks[k].first.suffix
                 /\ blocks[j].last.suffix = blocks[k].last.suffix)
                => \E e \in 1..Len(errors) :
                        errors[e] \in {HashError(blocks[j]), HashError(blocks[k])}

\* C22: parse_blocks raises nothing and returns either the blocks or an
\* error, never both and never neither, whatever the kinds and the suffixes
\* (present or absent) of the markers.
C22_BlocksXorErrorNoRaise ==
    pc = "parsed" =>
        /\ ret.parsed.raised = ""
        /\ (ret.parsed.blocks = None) # (ret.parsed.error = None)

\* As many markers as the model allows, with an absent suffix and a present
\* one among them, parsed to the end: all of them in blocks
C22_Witness ==
    /\ pc = "parsed"
    /\ Len(ret.markers) = MaxMarkers
    /\ \E i, j \in 1..Len(ret.markers) :
            ret.markers[i].suffix = Some(<<>>) /\ ret.markers[j].suffix # Some(<<>>)
    /\ ret.parsed.blocks # None
    /\ 2 * Len(ret.parsed.blocks[1]) = Len(ret.markers)

\* What the markers are expected to give: "ok" when the kinds are
\* (First Last)* and the suffixes of each pair are both absent or both present
\* and equal, the first failure met otherwise
ExpectedOutcome(markers) ==
    LET F[i \in 0..Len(markers)] ==
            IF i = 0 THEN [open |-> None, out |-> ""]
            ELSE LET p == F[i - 1]
                     m == markers[i]
                 IN  IF p.out # "" THEN p
                     ELSE IF m.kind = "First"
                     THEN IF p.open = None THEN [open |-> Some(m), out |-> ""]
                          ELSE [p EXCEPT !.out = "double start"]
                     ELSE IF p.open = None THEN [p EXCEPT !.out = "end without start"]
                     ELSE IF p.open[1].suffix # m.suffix THEN [p EXCEPT !.out = "suffix"]
                     ELSE [open |-> None, out |-> ""]
        final == F[Len(markers)]
    IN  IF final.out # "" THEN final.out
        ELSE IF final.open # None THEN "open block at the end"
        ELSE "ok"

\* The failure an error message of parse_blocks tells
ErrorOutcome(error) ==
    IF error.kind \in {"no suffix at start", "no suffix at end", "suffix mismatch"}
    THEN "suffix"
    ELSE error.kind

\* C23: parse_blocks returns the blocks exactly when the kinds are
\* (First Last)* with consistent suffixes in each pair (both absent, or both
\* present and equal), and otherwise the error of the first failure: double
\* start, end without start, suffix error, or open block at the end.
C23_SucceedsIffWellFormed ==
    pc = "parsed" =>
        LET expected == ExpectedOutcome(ret.markers)
        IN  /\ ret.parsed.raised = ""
            /\ (expected = "ok") <=> (ret.parsed.blocks # None)
            /\ expected # "ok" =>
                    /\ ret.parsed.error # None
                    /\ ErrorOutcome(ret.parsed.error[1]) = expected

\* A First marker met while another one is open, after a block with a hash
\* on both markers: the double start is the error
C23_Witness ==
    /\ pc = "parsed"
    /\ Len(ret.markers) >= 4
    /\ parse_blocks(SubSeq(ret.markers, 1, 2)).blocks # None
    /\ ret.markers[1].suffix # Some(<<>>)
    /\ ret.markers[3].kind = "First"
    /\ ret.markers[4].kind = "First"
    /\ ret.parsed.error # None
    /\ ret.parsed.error[1].kind = "double start"

\* C24: a Last marker without suffix (nothing follows the keyword) met while
\* a First marker without suffix is open closes the block and the parsing
\* goes on without error: wherever the two markers stand in the list, when
\* the markers before the two give blocks, the markers up to the Last one
\* give these blocks and the block of the two.
C24_BothAbsentClosesBlock ==
    pc = "parsed" =>
        \A n \in 2..Len(ret.markers) :
            (/\ ret.markers[n - 1].kind = "First" /\ ret.markers[n - 1].suffix = Some(<<>>)
             /\ ret.markers[n].kind = "Last" /\ ret.markers[n].suffix = Some(<<>>)
             /\ parse_blocks(SubSeq(ret.markers, 1, n - 2)).blocks # None)
            => LET upto == parse_blocks(SubSeq(ret.markers, 1, n))
               IN  /\ upto.raised = ""
                   /\ upto.error = None
                   /\ upto.blocks =
                        Some(Append(parse_blocks(SubSeq(ret.markers, 1, n - 2)).blocks[1],
                                    [first |-> ret.markers[n - 1], last |-> ret.markers[n]]))
                   /\ n = Len(ret.markers) => ret.parsed = upto

\* Two pairs of markers without suffix, one after the other: two blocks
C24_Witness ==
    /\ pc = "parsed"
    /\ Len(ret.markers) = 4
    /\ \A i \in 1..4 : ret.markers[i].suffix = Some(<<>>)
    /\ ret.parsed.blocks # None
    /\ Len(ret.parsed.blocks[1]) = 2

\* C25: parse_blocks on markers in increasing line order never fails its
\* contract on the order, and the blocks it returns are increasing and apart:
\* the first line of a block is before its last line, and the last line of a
\* block is before the first line of the next block.
C25_BlocksIncreasing ==
    pc = "parsed" =>
        /\ ret.parsed.raised # "ViolationError"
        /\ ret.parsed.blocks # None =>
                LET blocks == ret.parsed.blocks[1]
                IN  /\ \A k \in 1..Len(blocks) : blocks[k].first.lineno < blocks[k].last.lineno
                    /\ \A k \in 1..(Len(blocks) - 1) :
                            blocks[k].last.lineno < blocks[k + 1].first.lineno

\* Two blocks are returned, with a line between them
C25_Witness ==
    /\ pc = "parsed"
    /\ ret.parsed.blocks # None
    /\ Len(ret.parsed.blocks[1]) = 2
    /\ ret.parsed.blocks[1][1].last.lineno + 1 < ret.parsed.blocks[1][2].first.lineno

\* C26: extract_markers gives at most one marker per line, in increasing
\* order of the lines, each marker for the line it numbers, hence not more
\* markers than lines; and the blocks parse_blocks returns are at most half as
\* many as the markers.
C26_PigeonholeBounds ==
    pc \in {"markers", "parsed", "verified"} =>
        /\ Len(ret.markers) <= Len(arg)
        /\ \A i \in 1..(Len(ret.markers) - 1) : ret.markers[i].lineno < ret.markers[i + 1].lineno
        /\ \A i \in 1..Len(ret.markers) :
                /\ ret.markers[i].lineno \in 0..(Len(arg) - 1)
                /\ IF ret.markers[i].kind = "First"
                   THEN COMMENT_FIRST_RE(arg[ret.markers[i].lineno + 1]) # 0
                   ELSE COMMENT_LAST_RE(arg[ret.markers[i].lineno + 1]) # 0
        /\ pc \in {"parsed", "verified"} =>
                /\ ret.parsed.raised = ""
                /\ ret.parsed.blocks # None =>
                        2 * Len(ret.parsed.blocks[1]) <= Len(ret.markers)

\* A file of which every line is a marker, and which gives as many blocks as
\* the markers allow
C26_Witness ==
    /\ pc = "verified"
    /\ Len(arg) >= 4
    /\ Len(ret.markers) = Len(arg)
    /\ 2 * Len(ret.parsed.blocks[1]) = Len(ret.markers)

---------------------------------------------------------------------------
(* Properties of set_tags and check_tags *)

\* The lines of the buffer: the text before the final new-line of the
\* widget, cut at its new-lines
RECURSIVE CutAtNewLines(_)
CutAtNewLines(s) ==
    LET nls == {i \in 1..Len(s) : s[i] = NL}
    IN  IF nls = {} THEN <<s>>
        ELSE LET b == CHOOSE i \in nls : \A j \in nls : i <= j
             IN  <<SubSeq(s, 1, b - 1)>> \o CutAtNewLines(SubSeq(s, b + 1, Len(s)))

BufferLines(t) == CutAtNewLines(SubSeq(t, 1, Len(t) - 1))

\* The blocks of the buffer: the pairs of marker lines of the buffer
BufferBlocks(t) == parse_blocks(extract_markers(BufferLines(t)))

\* C27: set_tags on a widget without tags does not fail its contract and
\* leaves tags on which check_tags gives no error; when it returns no errors,
\* the ranges are as many as the blocks of the buffer, in their order, the
\* k-th range over the lines of the k-th block.
C27_SetTagsLeavesCheckedTags ==
    pc = "tagged" =>
        /\ ret.raised = ""
        /\ check_tags(text, sealed) = None
        /\ ret.errors = <<>> =>
                /\ BufferBlocks(text).blocks # None
                /\ LET blocks == BufferBlocks(text).blocks[1]
                   IN  /\ Len(sealed) = Len(blocks)
                       /\ \A k \in 1..Len(blocks) :
                            TkGet(text, sealed[k][1], sealed[k][2]) =
                                Join(SubSeq(BufferLines(text), blocks[k].first.lineno + 1,
                                            blocks[k].last.lineno + 1))

\* The lines of the buffer as set_tags counts them: str.splitlines() of the
\* content of the widget
CountedLines(t) == SplitLines(TkGet(t, 1, TkEnd(t)))

\* The numbers (from 1, as the widget numbers its lines) of the counted lines
\* which are start markers, in increasing order, and of those which are end
\* markers
StartMarkerLineNumbers(t) ==
    SelectSeq([i \in 1..Len(CountedLines(t)) |-> i],
              LAMBDA i : COMMENT_FIRST_RE(CountedLines(t)[i]) # 0)

EndMarkerLineNumbers(t) ==
    SelectSeq([i \in 1..Len(CountedLines(t)) |-> i],
              LAMBDA i : COMMENT_FIRST_RE(CountedLines(t)[i]) = 0
                            /\ COMMENT_LAST_RE(CountedLines(t)[i]) # 0)

\* The span in the widget from the start of the line numbered first to the
\* end of the line numbered last, the column after the last character of the
\* counted line of that number, before its new-line
LineSpan(t, first, last) ==
    <<TkLineCol(t, first, 0), TkLineCol(t, last, Len(CountedLines(t)[last]))>>

\* The ranges of the sealing tag are the spans of the blocks, the k-th block
\* made of the k-th start marker and the k-th end marker, from the line
\* `after` lines after the start-marker line: every block has its span as a
\* range, unless the span is empty in the widget, and there is no other range
RangesSpanBlocks(after) ==
    LET starts == StartMarkerLineNumbers(text)
        ends == EndMarkerLineNumbers(text)
        span(k) == LineSpan(text, starts[k] + after, ends[k])
    IN  /\ Len(starts) = Len(ends)
        /\ \A k \in 1..Len(starts) :
                span(k)[1] < span(k)[2] => \E j \in 1..Len(sealed) : sealed[j] = span(k)
        /\ \A j \in 1..Len(sealed) : \E k \in 1..Len(starts) : sealed[j] = span(k)

RangeInOrder(rs, k) == k > 1 => (rs[k][1] > rs[k - 1][1] /\ ~(rs[k][1] < rs[k - 1][2]))

RangeOnMarkerLines(t, r) ==
    /\ COMMENT_FIRST_RE(TkGet(t, TkLineStart(t, r[1]), TkLineEnd(t, r[1]))) # 0
    /\ COMMENT_LAST_RE(TkGet(t, TkLineStart(t, r[2]), TkLineEnd(t, r[2]))) # 0

RangeStartsLine(t, r) == r[1] = 1 \/ t[r[1] - 1] = NL

RangeEndsLine(t, r) == TkGetChar(t, r[2]) = NL

\* C29: check_tags returns an error exactly when some range is not in order
\* after the previous one, or is not from a start-marker line to an end-marker
\* line, or does not start at the start of the buffer or right after a
\* new-line, or does not end at a new-line; hence no error without ranges.
C29_ErrorIffRangeViolates ==
    pc = "checked" =>
        /\ (ret # None) <=>
                \E k \in 1..Len(sealed) :
                    ~(/\ RangeInOrder(sealed, k)
                      /\ RangeOnMarkerLines(text, sealed[k])
                      /\ RangeStartsLine(text, sealed[k])
                      /\ RangeEndsLine(text, sealed[k]))
        /\ sealed = <<>> => ret = None

\* check_tags gave no error on two ranges
C29_Witness ==
    /\ pc = "checked"
    /\ Len(sealed) = 2
    /\ ret = None

---------------------------------------------------------------------------
(* Properties of run *)

\* The sealed content of a file whose blocks parse: the sealed lines joined,
\* with the new-line at the end when the file has one
SealedContent(content) ==
    LET lines == SplitLines(content)
        blocks == Parsed(lines).blocks[1]
        joined == Join(IF blocks = <<>> THEN lines ELSE SealResult(lines, blocks))
    IN  IF EndsWithNL(content) THEN joined \o <<NL>> ELSE joined

\* C30: run raises nothing; when the input does not exist, is not a file or
\* its blocks do not parse, it returns 1, writes to stderr only and leaves the
\* file as it is; otherwise it returns 0, leaves no temporary file, and
\* writes the sealed content to stdout, or into the file with --write.
C30_RunExitCodeAndOutput ==
    pc = "exited" =>
        /\ ret.raised = ""
        /\ ~ret.tmp
        /\ IF arg.kind # "file" \/ Parsed(SplitLines(arg.content)).error # None
           THEN /\ ret.code = Some(1)
                /\ ret.stderr # <<>>
                /\ ret.stdout = <<>>
                /\ ret.file = arg.content
           ELSE /\ ret.code = Some(0)
                /\ ret.stderr = <<>>
                /\ IF arg.write
                   THEN ret.file = SealedContent(arg.content) /\ ret.stdout = <<>>
                   ELSE /\ ret.file = arg.content
                        /\ ret.stdout = IF EndsWithNL(SealedContent(arg.content))
                                         THEN SealedContent(arg.content)
                                         ELSE SealedContent(arg.content) \o <<NL>>

---------------------------------------------------------------------------
(* Further properties of pin_deletable_ranges and delete_the_deletables *)

\* Where the walk of pin_deletable_ranges stands before the i-th tagged
\* range: at the start of the walk, or right after the new-line which ends the
\* tagged range before
CursorBefore(i) ==
    LET walk_start == PinCandidateStart(text, sealed, sel_first)
    IN  IF i > 1 THEN Max(walk_start, sealed[i - 1][2] + 1) ELSE walk_start

\* The range to emit before the i-th tagged range (Optional): up to the
\* tagged range when the cursor is at the start of the buffer or after a
\* new-line, up to the character before the tagged range otherwise, nothing
\* when that is empty
EmittedBefore(i) ==
    LET c == CursorBefore(i)
        start == sealed[i][1]
    IN  IF c = 1 \/ text[c - 1] = NL THEN Some(<<c, start>>)
        ELSE IF c < start - 1 THEN Some(<<c, start - 1>>)
        ELSE None

\* C31: pin_deletable_ranges returns, and before a tagged range which
\* starts at s, after the cursor c and at or before index2, the range it
\* returns is [c, s) when c is the start of the buffer or follows a new-line,
\* [c, s - 1) otherwise, and none when that is empty; once
\* delete_the_deletables has deleted the ranges, every tagged range starts at
\* the start of the buffer or right after a new-line.
C31_NewLineBeforeBlockKept ==
    /\ pc # "query" =>
        /\ deletables.raised = ""
        /\ \A i \in 1..Len(sealed) :
            (CursorBefore(i) < sealed[i][1] /\ sealed[i][1] <= sel_last) =>
                LET before == SelectSeq(deletables.result,
                                        LAMBDA r : CursorBefore(i) <= r[1] /\ r[1] < sealed[i][1])
                IN  before = EmittedBefore(i)
    /\ pc \in {"deleted", "done"} =>
        /\ fast.raised = ""
        /\ Len(fast.sealed) = Len(sealed)
        /\ \A i \in 1..Len(fast.sealed) :
            fast.sealed[i][1] = 1 \/ fast.text[fast.sealed[i][1] - 1] = NL

\* The selection starts in the middle of the text before a sealed block and
\* ends after the start of the block: the range was shortened by the new-line
\* before the block, and deleted
C31_Witness ==
    /\ pc = "deleted"
    /\ \E i \in 1..Len(sealed) :
        /\ CursorBefore(i) > 1
        /\ CursorBefore(i) < sealed[i][1] - 1
        /\ sealed[i][1] <= sel_last
        /\ EmittedBefore(i) = Some(<<CursorBefore(i), sealed[i][1] - 1>>)
        /\ deletables.result[1] = <<CursorBefore(i), sealed[i][1] - 1>>
    /\ Len(fast.text) < Len(text)

\* The characters after the query interval, which stay behind the survivors
SuffixLen == Len(text) - (sel_last - 1)

\* The positions, after delete_the_deletables, of the characters of the query
\* interval which survived
Survivors == sel_first..(Len(fast.text) - SuffixLen)

\* C32 (as stated): after delete_the_deletables, is_deletable is false for
\* every surviving character that was inside [index1, index2)
C32_NoSurvivorDeletable ==
    pc \in {"deleted", "done"} =>
        /\ fast.raised = ""
        /\ \A p \in Survivors : is_deletable(fast.text, fast.sealed, p) = "False"

\* C32 (amended): after delete_the_deletables, is_deletable is false for
\* every surviving character that was inside [index1, index2), except for the
\* final new-line of the buffer, which Tk never deletes
C32_NoSurvivorButFinalNewLineDeletable ==
    pc \in {"deleted", "done"} =>
        /\ fast.raised = ""
        /\ \A p \in Survivors \ {Len(fast.text)} :
            is_deletable(fast.text, fast.sealed, p) = "False"

\* A selection across a sealed block was deleted, and characters of the
\* selection other than the final new-line survived
C32_Witness ==
    /\ pc = "deleted"
    /\ fast.raised = ""
    /\ Len(deletables.result) >= 2
    /\ Len(fast.text) < Len(text)
    /\ Survivors \ {Len(fast.text)} # {}
    /\ \E p \in Survivors \ {Len(fast.text)} : fast.text[p] = NL /\ p + 1 = fast.sealed[1][1]

\* The query touches no sealed structure: it starts after the new-line which
\* ends the tagged range before it, and ends before the start of the tagged
\* range after it
TouchesNoSealed ==
    \A i \in 1..Len(sealed) :
        IF sealed[i][1] < sel_first
        THEN sealed[i][2] < sel_first
        ELSE sel_last < sealed[i][1]

\* C33: for a query which touches no sealed structure,
\* pin_deletable_ranges returns exactly [(index1, index2)], for a query of one
\* character as for a longer one.
C33_UntouchedQueryReturnedWhole ==
    (pc # "query" /\ TouchesNoSealed) =>
        deletables = [result |-> <<(<<sel_first, sel_last>>)>>, raised |-> ""]

\* A query of several characters between the start of the buffer and a
\* sealed block which it does not reach was pinned
C33_Witness ==
    /\ pc = "pinned"
    /\ TouchesNoSealed
    /\ sel_last > sel_first + 1
    /\ \E i \in 1..Len(sealed) : sel_last < sealed[i][1]
    /\ deletables.result = <<(<<sel_first, sel_last>>)>>

\* The cursors of the walk over the query
Cursors == PinCursors(text, sealed, PinCandidateStart(text, sealed, sel_first), sel_last)

\* The tagged ranges which start at or after the initial cursor
RangesFromCursor == {i \in 1..Len(sealed) : sealed[i][1] >= Cursors[1]}

\* C34: pin_deletable_ranges terminates without an exception on a buffer
\* which satisfies check_tags and a valid query; the cursor increases strictly
\* with every iteration of the loop, the loop is left by its condition (the
\* assertion on the loop invariant never fails), and it runs at most once per
\* tagged range which starts at or after the initial cursor, plus one.
C34_WalkTerminates ==
    pc # "query" =>
        /\ check_tags(text, sealed) = None
        /\ deletables.raised = ""
        /\ PinWalks(text, sealed, sel_first, sel_last) =>
            /\ \A k \in 1..(Len(Cursors) - 1) : Cursors[k] < Cursors[k + 1]
            /\ Cursors[Len(Cursors)] >= sel_last
            /\ Len(Cursors) - 1 <= Cardinality(RangesFromCursor) + 1

\* The walk ran over two sealed blocks and once more over the text after them
C34_Witness ==
    /\ pc = "pinned"
    /\ PinWalks(text, sealed, sel_first, sel_last)
    /\ Cardinality(RangesFromCursor) = 2
    /\ Len(Cursors) - 1 = 3
    /\ deletables.raised = ""
    /\ Len(deletables.result) >= 2

RECURSIVE IsSubSeq(_, _)
\* a is b with some of its elements removed
IsSubSeq(a, b) ==
    IF a = <<>> THEN TRUE
    ELSE IF b = <<>> THEN FALSE
    ELSE IF Head(a) = Head(b) THEN IsSubSeq(Tail(a), Tail(b))
    ELSE IsSubSeq(a, Tail(b))

\* C36: delete_the_deletables leaves the text before index1 and the text
\* from index2 to the end as they were; what is between them afterwards is
\* what was inside [index1, index2) with some characters removed.
C36_OnlyQueryChanged ==
    pc \in {"deleted", "done"} =>
        /\ fast.raised = ""
        /\ Len(fast.text) >= (sel_first - 1) + SuffixLen
        /\ SubSeq(fast.text, 1, sel_first - 1) = SubSeq(text, 1, sel_first - 1)
        /\ SubSeq(fast.text, Len(fast.text) - SuffixLen + 1, Len(fast.text))
               = SubSeq(text, sel_last, Len(text))
        /\ IsSubSeq(SubSeq(fast.text, sel_first, Len(fast.text) - SuffixLen),
                    SubSeq(text, sel_first, sel_last - 1))

\* A query with text before it and text after it, which overlaps a sealed
\* block, lost some of its characters
C36_Witness ==
    /\ pc = "deleted"
    /\ fast.raised = ""
    /\ sel_first > 1
    /\ SuffixLen > 1
    /\ \E i \in 1..Len(sealed) : sel_first <= sealed[i][2] /\ sealed[i][1] < sel_last
    /\ deletables.result # <<>>
    /\ Len(fast.text) < Len(text)

\* C37: no range returned by pin_deletable_ranges contains a position p
\* with start <= p <= end for a tagged range (start, end); between two
\* consecutive returned ranges lies at least one whole tagged range, so the
\* earlier one ends before the later one starts, and the marker tag of
\* delete_the_deletables has one range per returned range.
C37_RangesApartFromSealed ==
    pc # "query" =>
        /\ deletables.raised = ""
        /\ \A k \in 1..Len(deletables.result) : \A i \in 1..Len(sealed) :
            \A p \in sealed[i][1]..sealed[i][2] :
                ~(deletables.result[k][1] <= p /\ p < deletables.result[k][2])
        /\ \A k \in 1..(Len(deletables.result) - 1) :
            /\ deletables.result[k][2] < deletables.result[k + 1][1]
            /\ \E i \in 1..Len(sealed) :
                /\ deletables.result[k][2] <= sealed[i][1]
                /\ sealed[i][2] < deletables.result[k + 1][1]
        /\ MarkDeletables(text, deletables.result) = deletables.result

\* Two ranges were returned, one up to a sealed block and one from the
\* character after the new-line which ends it
C37_Witness ==
    /\ pc = "pinned"
    /\ Len(deletables.result) = 2
    /\ \E i \in 1..Len(sealed) :
        /\ deletables.result[1][2] = sealed[i][1]
        /\ deletables.result[2][1] = sealed[i][2] + 1

\* The marker tag of delete_the_deletables over the ranges which were pinned
Marked == MarkDeletables(text, deletables.result)

\* C38: delete_the_deletables terminates for every valid query, also for
\* one which ends at the end of the buffer: the range which delete_func was
\* applied to is not marked any more, the body of the loop runs once per range
\* returned by pin_deletable_ranges, and no range is marked then.
C38_DeleteLoopTerminates ==
    pc \in {"deleted", "done"} =>
        /\ fast.raised = ""
        /\ Marked # <<>> =>
            TkDeleteTags(text, Marked, Marked[1][1], Marked[1][2])
                = TkDeleteTags(text, Tail(Marked), Marked[1][1], Marked[1][2])
        /\ DeleteRuns(text, Marked, Len(text) + 1) = Len(deletables.result)

\* Two ranges were deleted, the second one up to the end of the buffer
C38_Witness ==
    /\ pc = "deleted"
    /\ fast.raised = ""
    /\ sel_last = TkEnd(text)
    /\ Len(deletables.result) = 2
    /\ deletables.result[2][2] = TkEnd(text)
    /\ DeleteRuns(text, Marked, Len(text) + 1) = 2

---------------------------------------------------------------------------
(* Further properties of set_tags *)

\* The blocks of the buffer which verify_blocks accepts; none when the
\* markers do not parse
VerifiedBlocks ==
    LET lines == SplitLines(TkGet(text, 1, TkEnd(text)))
        parsed == parse_blocks(extract_markers(lines))
    IN  IF parsed.raised # "" \/ parsed.error # None THEN <<>>
        ELSE verify_blocks(lines, parsed.blocks[1]).ok_blocks

\* C39: when set_tags returns errors, the text widget has no range of
\* the sealing tag afterwards.
C39_ErrorsLeaveNoTag ==
    (pc = "tagged" /\ ret.errors # <<>>) =>
        /\ ret.raised = ""
        /\ ret.sealed = <<>>
        /\ sealed = <<>>

\* set_tags returned the error of one block although another block was
\* verified
C39_Witness ==
    /\ pc = "tagged"
    /\ ret.errors # <<>>
    /\ VerifiedBlocks # <<>>
    /\ sealed = <<>>

===========================================================================
